---- MODULE Spec2Model ----
(***************************************************************************)
(* Performance scoring and rating engine of the employee performance      *)
(* monitor (src-tauri/src/commands/report.rs).                             *)
(*                                                                         *)
(* Numbers.  An f64 is modelled as an exact ratio <<n, d>>: d > 0 and      *)
(* gcd(n, d) = 1 for a finite value, and d = 0 for the three non-finite    *)
(* values NaN = <<0, 0>>, +inf = <<1, 0>>, -inf = <<-1, 0>>.  Arithmetic   *)
(* is exact: the rounding of f64 operations and the sign of zero are not   *)
(* modelled.  NaN and the infinities behave as in IEEE 754 / Rust std.     *)
(*                                                                         *)
(* Text.  A string is a sequence of code points, each written as a TLA+    *)
(* string: an ASCII character stands for itself, a longer token names one  *)
(* non-ASCII code point ("e_acute" is U+00E9, "cm_acute" is U+0301).       *)
(*                                                                         *)
(* Option<T> is <<>> for None and <<v>> for Some(v).                       *)
(***************************************************************************)
EXTENDS Integers, Sequences, FiniteSets, TLC

VARIABLES
    entry,                 \* the function of the engine that is invoked
    pc,                    \* "call" before it has run, "done" after, "panicked"
    scores,                \* performance.scores: rows [name, raw_value, numeric_value]
    employee,              \* performance.employee: [jabatan, sub_jabatan, gol]
    override_score,        \* compute_leadership_score's override_score argument
    normalization_result,  \* Vec<CompetencyScore> of normalize_competencies
    normalization_scale,   \* the scale normalize_competencies returns
    position_type,         \* "Eselon" or "Staff"
    perilaku,              \* ComponentResult of calculate_perilaku_kinerja
    kualitas,              \* ComponentResult of calculate_kualitas_kerja
    has_performance_data,  \* the flag build_report_context derives
    leadership,            \* Option<LeadershipScoreResult>
    total_score,           \* result of calculate_total_score
    rating,                \* result of get_performance_rating
    previous,              \* Option of the preceding call of the same function
    component_sections,    \* EmployeeReportContext.component_sections
    report_competencies,   \* EmployeeReportContext.competencies (sorted)
    arg_parameter,         \* find_competency_score's parameter argument
    arg_aliases,           \* find_competency_score's aliases argument
    matched_score,         \* result of find_competency_score
    input_text,            \* normalize_text's value argument
    output_text,           \* result of normalize_text
    tasks                  \* the report computations that run side by side

report_vars == <<component_sections, report_competencies>>

matcher_vars == <<arg_parameter, arg_aliases, matched_score>>

text_vars == <<input_text, output_text>>

vars == <<entry, pc, scores, employee, override_score, normalization_result,
          normalization_scale, position_type, perilaku, kualitas,
          has_performance_data, leadership, total_score, rating, previous,
          report_vars, matcher_vars, text_vars, tasks>>

----------------------------------------------------------------------------
(* f64 *)

None == <<>>

Some(v) == <<v>>

IsSome(o) == o # <<>>

Unwrap(o) == o[1]

Abs(n) == IF n < 0 THEN -n ELSE n

RECURSIVE Gcd(_, _)
Gcd(a, b) == IF b = 0 THEN a ELSE Gcd(b, a % b)

\* The finite value n/d (d # 0) in lowest terms with a positive denominator.
Frac(n, d) ==
    LET g == Gcd(Abs(n), Abs(d))
        s == IF d < 0 THEN -1 ELSE 1
    IN  <<(s * n) \div g, (s * d) \div g>>

R(n) == <<n, 1>>

NaN == <<0, 0>>

PosInf == <<1, 0>>

NegInf == <<-1, 0>>

is_nan(a) == a = NaN

is_finite(a) == a[2] # 0

Sign(a) == IF a[1] < 0 THEN -1 ELSE IF a[1] > 0 THEN 1 ELSE 0

\* a < b; false when either side is NaN.
FLt(a, b) ==
    /\ ~is_nan(a)
    /\ ~is_nan(b)
    /\ IF a[2] = 0 /\ b[2] = 0 THEN a[1] < b[1] ELSE a[1] * b[2] < b[1] * a[2]

FGt(a, b) == FLt(b, a)

\* a <= b; false when either side is NaN.
FLe(a, b) == ~is_nan(a) /\ ~is_nan(b) /\ ~FLt(b, a)

FGe(a, b) == FLe(b, a)

FAdd(a, b) ==
    IF is_nan(a) \/ is_nan(b) THEN NaN
    ELSE IF ~is_finite(a) THEN (IF ~is_finite(b) /\ b # a THEN NaN ELSE a)
    ELSE IF ~is_finite(b) THEN b
    ELSE Frac(a[1] * b[2] + b[1] * a[2], a[2] * b[2])

FMul(a, b) ==
    IF is_nan(a) \/ is_nan(b) THEN NaN
    ELSE IF ~is_finite(a) \/ ~is_finite(b)
         THEN <<Sign(a) * Sign(b), 0>>
    ELSE Frac(a[1] * b[1], a[2] * b[2])

FDiv(a, b) ==
    IF is_nan(a) \/ is_nan(b) THEN NaN
    ELSE IF ~is_finite(a) THEN (IF ~is_finite(b) THEN NaN
                                ELSE <<Sign(a) * (IF Sign(b) < 0 THEN -1 ELSE 1), 0>>)
    ELSE IF ~is_finite(b) THEN R(0)
    ELSE IF b[1] = 0 THEN <<Sign(a), 0>>
    ELSE Frac(a[1] * b[2], a[2] * b[1])

\* f64::max: the other argument when one is NaN.
f64_max(a, b) ==
    IF is_nan(a) THEN b ELSE IF is_nan(b) THEN a ELSE IF FLt(a, b) THEN b ELSE a

\* f64::min: the other argument when one is NaN.
f64_min(a, b) ==
    IF is_nan(a) THEN b ELSE IF is_nan(b) THEN a ELSE IF FLt(b, a) THEN b ELSE a

\* f64::clamp: NaN stays NaN.
f64_clamp(x, lo, hi) == IF FLt(x, lo) THEN lo ELSE IF FGt(x, hi) THEN hi ELSE x

RECURSIVE FSum(_)
FSum(s) == IF s = <<>> THEN R(0) ELSE FAdd(FSum(SubSeq(s, 1, Len(s) - 1)), s[Len(s)])

----------------------------------------------------------------------------
(* char and str *)

AsciiLower == <<"a", "b", "c", "d", "e", "f", "g", "h", "i", "j", "k", "l", "m", "n", "o", "p", "q", "r", "s", "t", "u", "v", "w", "x", "y", "z">>

AsciiUpper == <<"A", "B", "C", "D", "E", "F", "G", "H", "I", "J", "K", "L", "M", "N", "O", "P", "Q", "R", "S", "T", "U", "V", "W", "X", "Y", "Z">>

AsciiDigits == <<"0", "1", "2", "3", "4", "5", "6", "7", "8", "9">>

Range(s) == {s[i] : i \in 1..Len(s)}

AsciiLowerSet == Range(AsciiLower)

AsciiUpperSet == Range(AsciiUpper)

AsciiDigitSet == Range(AsciiDigits)

UpperToLower == [c \in AsciiUpperSet |-> AsciiLower[CHOOSE i \in 1..Len(AsciiUpper) : AsciiUpper[i] = c]]

DigitValue == [c \in AsciiDigitSet |-> (CHOOSE i \in 1..Len(AsciiDigits) : AsciiDigits[i] = c) - 1]

\* char::is_ascii_alphabetic
is_ascii_alphabetic(ch) == ch \in AsciiLowerSet \/ ch \in AsciiUpperSet

\* char::is_ascii_whitespace: space, tab, line feed, form feed, carriage return
is_ascii_whitespace(ch) == ch \in {" ", "\t", "\n", "\f", "\r"}

\* char::is_whitespace: the Unicode White_Space property ("nbsp" is U+00A0)
is_whitespace(ch) == is_ascii_whitespace(ch) \/ ch \in {"nbsp"}

\* unicode_normalization::char::is_combining_mark ("cm_acute" is U+0301)
is_combining_mark(ch) == ch \in {"cm_acute"}

\* Canonical decomposition of one code point ("e_acute" is U+00E9, "E_acute" U+00C9).
nfd_char(ch) ==
    IF ch = "e_acute" THEN <<"e", "cm_acute">>
    ELSE IF ch = "E_acute" THEN <<"E", "cm_acute">>
    ELSE <<ch>>

RECURSIVE nfd(_)
nfd(s) == IF s = <<>> THEN <<>> ELSE nfd_char(Head(s)) \o nfd(Tail(s))

char_to_lowercase(ch) ==
    IF ch \in AsciiUpperSet THEN UpperToLower[ch]
    ELSE IF ch = "E_acute" THEN "e_acute"
    ELSE ch

to_lowercase(s) == [i \in 1..Len(s) |-> char_to_lowercase(s[i])]

\* str::contains
contains(s, t) ==
    \E i \in 1..(Len(s) - Len(t) + 1) : \A k \in 1..Len(t) : s[i + k - 1] = t[k]

\* str::replace for a one-character pattern and replacement
replace(s, from, to) == [i \in 1..Len(s) |-> IF s[i] = from THEN to ELSE s[i]]

IsDigits(s) == \A i \in 1..Len(s) : s[i] \in AsciiDigitSet

RECURSIVE DigitsValue(_)
DigitsValue(s) ==
    IF s = <<>> THEN 0 ELSE 10 * DigitsValue(SubSeq(s, 1, Len(s) - 1)) + DigitValue[s[Len(s)]]

RECURSIVE Pow10(_)
Pow10(n) == IF n = 0 THEN 1 ELSE 10 * Pow10(n - 1)

\* Index of the first element of s in set cs, 0 when there is none.
FirstIndexIn(s, cs) ==
    IF \E i \in 1..Len(s) : s[i] \in cs
    THEN CHOOSE i \in 1..Len(s) : s[i] \in cs /\ \A j \in 1..(i - 1) : s[j] \notin cs
    ELSE 0

\* <f64 as FromStr>::from_str: [sign] (inf | infinity | nan | number), where
\* number is digits with at most one '.', at least one digit, and an optional
\* exponent e[sign]digits.  None for any other text.  A decimal exponent above
\* 308 overflows to an infinity (f64::MAX is about 1.8e308).
parse_f64(s) ==
    LET signed == s # <<>> /\ s[1] \in {"+", "-"}
        sgn    == IF signed /\ s[1] = "-" THEN -1 ELSE 1
        body   == IF signed THEN Tail(s) ELSE s
        low    == to_lowercase(body)
        epos   == FirstIndexIn(body, {"e", "E"})
        mant   == IF epos = 0 THEN body ELSE SubSeq(body, 1, epos - 1)
        exps   == IF epos = 0 THEN <<>> ELSE SubSeq(body, epos + 1, Len(body))
        esigned == exps # <<>> /\ exps[1] \in {"+", "-"}
        esgn   == IF esigned /\ exps[1] = "-" THEN -1 ELSE 1
        edig   == IF esigned THEN Tail(exps) ELSE exps
        dpos   == FirstIndexIn(mant, {"."})
        ipart  == IF dpos = 0 THEN mant ELSE SubSeq(mant, 1, dpos - 1)
        fpart  == IF dpos = 0 THEN <<>> ELSE SubSeq(mant, dpos + 1, Len(mant))
        wellformed ==
            /\ IsDigits(ipart)
            /\ IsDigits(fpart)
            /\ Len(ipart) + Len(fpart) > 0
            /\ epos # 0 => (edig # <<>> /\ IsDigits(edig))
        m      == DigitsValue(ipart \o fpart)
        e10    == esgn * DigitsValue(edig) - Len(fpart)
    IN  IF low \in {<<"i", "n", "f">>, <<"i", "n", "f", "i", "n", "i", "t", "y">>} THEN Some(<<sgn, 0>>)
        ELSE IF low = <<"n", "a", "n">> THEN Some(NaN)
        ELSE IF ~wellformed THEN None
        ELSE IF m = 0 THEN Some(R(0))
        ELSE IF e10 > 308 THEN Some(<<sgn, 0>>)
        ELSE IF e10 >= 0 THEN Some(Frac(sgn * m * Pow10(e10), 1))
        ELSE Some(Frac(sgn * m, Pow10(-e10)))

----------------------------------------------------------------------------
(* Rubric tables and constants, report.rs:90-175 *)

PERILAKU_PARAMS == <<
    [parameter |-> <<"I", "n", "i", "s", "i", "a", "t", "i", "f", " ", "d", "a", "n", " ", "f", "l", "e", "k", "s", "i", "b", "i", "l", "i", "t", "a", "s">>, weight |-> R(5),
     aliases |-> <<<<"i", "n", "i", "s", "i", "a", "t", "i", "f">>, <<"i", "n", "i", "t", "i", "a", "t", "i", "v", "e">>, <<"f", "l", "e", "k", "s", "i", "b", "i", "l", "i", "t", "a", "s">>, <<"f", "l", "e", "x", "i", "b", "i", "l", "i", "t", "y">>>>],
    [parameter |-> <<"K", "e", "h", "a", "d", "i", "r", "a", "n", " ", "d", "a", "n", " ", "k", "e", "t", "e", "p", "a", "t", "a", "n", " ", "w", "a", "k", "t", "u">>, weight |-> R(5),
     aliases |-> <<<<"k", "e", "h", "a", "d", "i", "r", "a", "n">>, <<"k", "e", "t", "e", "p", "a", "t", "a", "n", " ", "w", "a", "k", "t", "u">>, <<"a", "t", "t", "e", "n", "d", "a", "n", "c", "e">>, <<"p", "u", "n", "c", "t", "u", "a", "l", "i", "t", "y">>,
                   <<"a", "b", "s", "e", "n", "s", "i">>>>],
    [parameter |-> <<"K", "e", "r", "j", "a", "s", "a", "m", "a", " ", "d", "a", "n", " ", "t", "e", "a", "m", " ", "w", "o", "r", "k">>, weight |-> R(5),
     aliases |-> <<<<"k", "e", "r", "j", "a", "s", "a", "m", "a">>, <<"t", "e", "a", "m", " ", "w", "o", "r", "k">>, <<"t", "e", "a", "m", "w", "o", "r", "k">>, <<"k", "o", "l", "a", "b", "o", "r", "a", "s", "i">>, <<"t", "e", "a", "m">>>>],
    [parameter |-> <<"M", "a", "n", "a", "j", "e", "m", "e", "n", " ", "w", "a", "k", "t", "u", " ", "k", "e", "r", "j", "a">>, weight |-> R(5),
     aliases |-> <<<<"m", "a", "n", "a", "j", "e", "m", "e", "n", " ", "w", "a", "k", "t", "u">>, <<"t", "i", "m", "e", " ", "m", "a", "n", "a", "g", "e", "m", "e", "n", "t">>>>],
    [parameter |-> <<"K", "e", "p", "e", "m", "i", "m", "p", "i", "n", "a", "n">>, weight |-> R(10),
     aliases |-> <<<<"k", "e", "p", "e", "m", "i", "m", "p", "i", "n", "a", "n">>, <<"l", "e", "a", "d", "e", "r", "s", "h", "i", "p">>, <<"l", "e", "a", "d", "e", "r">>>>] >>

KUALITAS_PARAMS == <<
    [parameter |-> <<"K", "u", "a", "l", "i", "t", "a", "s", " ", "k", "i", "n", "e", "r", "j", "a">>, eselon_weight |-> Frac(51, 2),
     staff_weight |-> Frac(85, 2),
     aliases |-> <<<<"k", "u", "a", "l", "i", "t", "a", "s", " ", "k", "i", "n", "e", "r", "j", "a">>, <<"k", "i", "n", "e", "r", "j", "a">>, <<"q", "u", "a", "l", "i", "t", "y", " ", "o", "f", " ", "w", "o", "r", "k">>, <<"q", "u", "a", "l", "i", "t", "y">>>>],
    [parameter |-> <<"K", "e", "m", "a", "m", "p", "u", "a", "n", " ", "b", "e", "r", "k", "o", "m", "u", "n", "i", "k", "a", "s", "i">>, eselon_weight |-> Frac(17, 2),
     staff_weight |-> Frac(17, 2),
     aliases |-> <<<<"k", "o", "m", "u", "n", "i", "k", "a", "s", "i">>, <<"c", "o", "m", "m", "u", "n", "i", "c", "a", "t", "i", "o", "n">>>>],
    [parameter |-> <<"P", "e", "m", "a", "h", "a", "m", "a", "n", " ", "t", "e", "n", "t", "a", "n", "g", " ", "p", "e", "r", "m", "a", "s", "a", "l", "a", "h", "a", "n", " ", "s", "o", "s", "i", "a", "l">>, eselon_weight |-> Frac(17, 2),
     staff_weight |-> Frac(17, 2),
     aliases |-> <<<<"p", "e", "r", "m", "a", "s", "a", "l", "a", "h", "a", "n", " ", "s", "o", "s", "i", "a", "l">>, <<"s", "o", "c", "i", "a", "l", " ", "i", "s", "s", "u", "e", "s">>, <<"s", "o", "c", "i", "a", "l", " ", "p", "r", "o", "b", "l", "e", "m">>,
                   <<"p", "e", "m", "a", "h", "a", "m", "a", "n", " ", "s", "o", "s", "i", "a", "l">>>>] >>

PERILAKU_CAP == Frac(51, 2)

KUALITAS_CAP_ESELON == Frac(85, 2)

KUALITAS_CAP_STAFF == R(70)

LEADERSHIP_CAP == R(17)

TOTAL_CAP == R(85)

LEADERSHIP_WEIGHT == Frac(17, 100)

DEFAULT_LEADERSHIP_SCORE == R(80)

ESELON_KEYWORDS == <<
    <<"e", "s", "e", "l", "o", "n">>, <<"k", "e", "p", "a", "l", "a">>, <<"s", "e", "k", "r", "e", "t", "a", "r", "i", "s">>, <<"k", "a", "b", "i", "d">>, <<"k", "a", "b", "a", "g">>, <<"k", "a", "s", "u", "b", "a", "g">>,
    <<"k", "e", "p", "a", "l", "a", " ", "s", "e", "k", "s", "i">>, <<"k", "a", "s", "i">>, <<"k", "o", "o", "r", "d", "i", "n", "a", "t", "o", "r">>, <<"p", "e", "n", "g", "a", "w", "a", "s">>, <<"s", "u", "b", " ", "b", "a", "g", "i", "a", "n">>,
    <<"s", "u", "b", "b", "a", "g", "i", "a", "n">>, <<"s", "u", "b", "b", "i", "d", "a", "n", "g">>, <<"s", "u", "b", " ", "b", "i", "d", "a", "n", "g">> >>

STAFF_KEYWORDS == <<<<"s", "t", "a", "f", "f">>, <<"s", "t", "a", "f">>>>

Eselon == "Eselon"

Staff == "Staff"

PositionType == {Eselon, Staff}

\* normalize_text with every other character turned into a space, not dropped.
normalize_text_spaced(value) ==
    LET decomposed == SelectSeq(nfd(value), LAMBDA c : ~is_combining_mark(c))
        lowered == to_lowercase(decomposed)
    IN  [i \in 1..Len(lowered) |->
            IF is_ascii_alphabetic(lowered[i]) \/ is_whitespace(lowered[i])
            THEN lowered[i] ELSE " "]

\* normalize_text, report.rs:480-489
normalize_text(value) ==
    LET decomposed == SelectSeq(nfd(value), LAMBDA c : ~is_combining_mark(c))
    IN  SelectSeq(to_lowercase(decomposed),
                  LAMBDA ch : is_ascii_alphabetic(ch) \/ is_whitespace(ch))

----------------------------------------------------------------------------
(* Competency names of the enumerated inputs *)

\* One competency column per rubric parameter, in display order.
SheetNames == <<
    <<"I", "n", "i", "s", "i", "a", "t", "i", "f">>, <<"K", "e", "h", "a", "d", "i", "r", "a", "n">>, <<"K", "e", "r", "j", "a", "s", "a", "m", "a">>, <<"M", "a", "n", "a", "j", "e", "m", "e", "n", " ", "W", "a", "k", "t", "u">>, <<"K", "e", "p", "e", "m", "i", "m", "p", "i", "n", "a", "n">>,
    <<"K", "u", "a", "l", "i", "t", "a", "s", " ", "K", "i", "n", "e", "r", "j", "a">>, <<"K", "o", "m", "u", "n", "i", "k", "a", "s", "i">>, <<"P", "e", "r", "m", "a", "s", "a", "l", "a", "h", "a", "n", " ", "S", "o", "s", "i", "a", "l">> >>

\* Competency names as imported: numbered, and one outside the rubric.
RubricNames == {<<"1", ".", " ", "K", "e", "h", "a", "d", "i", "r", "a", "n">>, <<"K", "u", "a", "l", "i", "t", "a", "s", " ", "K", "i", "n", "e", "r", "j", "a">>}

OtherName == <<"L", "a", "i", "n", "n", "y", "a">>

ShortNames == RubricNames \cup {OtherName}

ScaleNames == {<<"K", "e", "h", "a", "d", "i", "r", "a", "n">>}

----------------------------------------------------------------------------
(* normalize_text of the texts that recur in every call, evaluated once *)

RECURSIVE Flatten(_)
Flatten(ss) == IF ss = <<>> THEN <<>> ELSE Head(ss) \o Flatten(Tail(ss))

RubricTexts ==
    Range([p \in 1..Len(PERILAKU_PARAMS) |-> PERILAKU_PARAMS[p].parameter])
    \cup Range(Flatten([p \in 1..Len(PERILAKU_PARAMS) |-> PERILAKU_PARAMS[p].aliases]))
    \cup Range([p \in 1..Len(KUALITAS_PARAMS) |-> KUALITAS_PARAMS[p].parameter])
    \cup Range(Flatten([p \in 1..Len(KUALITAS_PARAMS) |-> KUALITAS_PARAMS[p].aliases]))
    \cup Range(ESELON_KEYWORDS) \cup Range(STAFF_KEYWORDS)

KnownTexts == RubricTexts \cup Range(SheetNames) \cup ShortNames \cup ScaleNames

NormalizedTexts == [t \in KnownTexts |-> normalize_text(t)]

\* normalize_text(value): looked up for a known text, computed for any other.
normalize_cached(value) ==
    IF value \in KnownTexts THEN NormalizedTexts[value] ELSE normalize_text(value)


----------------------------------------------------------------------------
(* The engine, report.rs:285-533 *)

clamp_score(value) ==
    IF ~is_finite(value) THEN R(0) ELSE f64_clamp(value, R(0), R(100))

\* The finite numeric_value when there is one, else raw_value with ',' read as
\* '.' and parsed as f64, else 0.
parse_numeric_score(score) ==
    IF IsSome(score.numeric_value) /\ is_finite(Unwrap(score.numeric_value))
    THEN Unwrap(score.numeric_value)
    ELSE LET parsed == parse_f64(replace(score.raw_value, ",", "."))
         IN  IF IsSome(parsed) THEN Unwrap(parsed) ELSE R(0)

RECURSIVE FoldMax(_, _)
FoldMax(current, values) ==
    IF values = <<>> THEN current
    ELSE CHOOSE m \in {FoldMax(next, Tail(values)) :
                            next \in {f64_max(current, Head(values))}} : TRUE

\* determine_scale with the thresholds compared by < instead of <=.
determine_scale_exclusive(values) ==
    LET max == FoldMax(R(0), values)
    IN  IF FLe(max, R(0)) THEN R(100)
        ELSE IF FLt(max, R(5)) THEN R(4)
        ELSE IF FLt(max, R(10)) THEN R(10)
        ELSE IF FLt(max, R(20)) THEN R(20)
        ELSE IF FLt(max, R(100)) THEN R(100)
        ELSE max

\* determine_scale with a five-point scale for a maximum up to 5.
determine_scale_five_point(values) ==
    LET max == FoldMax(R(0), values)
    IN  IF FLe(max, R(0)) THEN R(100)
        ELSE IF FLe(max, R(5)) THEN R(5)
        ELSE IF FLe(max, R(10)) THEN R(10)
        ELSE IF FLe(max, R(20)) THEN R(20)
        ELSE IF FLe(max, R(100)) THEN R(100)
        ELSE max

determine_scale(values) ==
    LET max == FoldMax(R(0), values)
    IN  IF FLe(max, R(0)) THEN R(100)
        ELSE IF FLe(max, R(5)) THEN R(4)
        ELSE IF FLe(max, R(10)) THEN R(10)
        ELSE IF FLe(max, R(20)) THEN R(20)
        ELSE IF FLe(max, R(100)) THEN R(100)
        ELSE max

\* normalize_competencies that divides by the largest value of the list instead
\* of the scale.
normalize_competencies_by_largest(rows) ==
    LET original_values == [i \in 1..Len(rows) |-> parse_numeric_score(rows[i])]
        scale == determine_scale(original_values)
        largest == FoldMax(R(0), original_values)
        competencies ==
            [i \in 1..Len(rows) |->
                [name |-> rows[i].name,
                 raw_score |->
                    IF FLe(largest, R(0)) THEN R(0)
                    ELSE f64_clamp(FMul(FDiv(original_values[i], largest), R(100)),
                                   R(0), R(100)),
                 original_score |-> original_values[i]]]
    IN  <<competencies, scale>>

\* <<Vec<CompetencyScore>, scale>>
normalize_competencies(rows) ==
    LET original_values == [i \in 1..Len(rows) |-> parse_numeric_score(rows[i])]
        scale == determine_scale(original_values)
        competencies ==
            [i \in 1..Len(rows) |->
                [name |-> rows[i].name,
                 raw_score |->
                    IF FLe(scale, R(0)) THEN R(0)
                    ELSE f64_clamp(FMul(FDiv(original_values[i], scale), R(100)),
                                   R(0), R(100)),
                 original_score |-> original_values[i]]]
    IN  <<competencies, scale>>

to_component(parameter, raw_score, weight_percentage) ==
    [parameter |-> parameter,
     raw_score |-> raw_score,
     weight_percentage |-> weight_percentage,
     weighted_score |-> FDiv(FMul(raw_score, weight_percentage), R(100))]

\* The loop over the scores of find_competency_score, report.rs:470-477.
RECURSIVE FirstMatch(_, _)
FirstMatch(competencies, targets) ==
    IF competencies = <<>> THEN R(0)
    ELSE LET normalized_name == normalize_cached(Head(competencies).name)
         IN  IF \E t \in 1..Len(targets) : contains(normalized_name, targets[t])
             THEN clamp_score(Head(competencies).raw_score)
             ELSE FirstMatch(Tail(competencies), targets)

\* The first target, in alias order, that some score matches.
RECURSIVE FirstMatchByTarget(_, _)
FirstMatchByTarget(competencies, targets) ==
    IF targets = <<>> THEN R(0)
    ELSE LET hits == {i \in 1..Len(competencies) :
                        contains(normalize_cached(competencies[i].name), Head(targets))}
         IN  IF hits # {}
             THEN clamp_score(competencies[CHOOSE i \in hits : \A j \in hits : i <= j].raw_score)
             ELSE FirstMatchByTarget(competencies, Tail(targets))

\* find_competency_score with the targets tried one after the other.
find_competency_score_alias_order(competencies, parameter, aliases) ==
    IF competencies = <<>> THEN R(0)
    ELSE FirstMatchByTarget(competencies,
                            <<normalize_cached(parameter)>>
                            \o [i \in 1..Len(aliases) |-> normalize_cached(aliases[i])])

find_competency_score(competencies, parameter, aliases) ==
    IF competencies = <<>> THEN R(0)
    ELSE FirstMatch(competencies,
                    <<normalize_cached(parameter)>>
                    \o [i \in 1..Len(aliases) |-> normalize_cached(aliases[i])])

WeightedScores(breakdown) == [i \in 1..Len(breakdown) |-> breakdown[i].weighted_score]

\* calculate_perilaku_kinerja without .min(PERILAKU_CAP).
calculate_perilaku_kinerja_uncapped(competencies) ==
    LET breakdown ==
            [p \in 1..Len(PERILAKU_PARAMS) |->
                to_component(PERILAKU_PARAMS[p].parameter,
                             find_competency_score(competencies,
                                                   PERILAKU_PARAMS[p].parameter,
                                                   PERILAKU_PARAMS[p].aliases),
                             PERILAKU_PARAMS[p].weight)]
    IN  [subtotal |-> FSum(WeightedScores(breakdown)), breakdown |-> breakdown]

calculate_perilaku_kinerja(competencies) ==
    LET breakdown ==
            [p \in 1..Len(PERILAKU_PARAMS) |->
                to_component(PERILAKU_PARAMS[p].parameter,
                             find_competency_score(competencies,
                                                   PERILAKU_PARAMS[p].parameter,
                                                   PERILAKU_PARAMS[p].aliases),
                             PERILAKU_PARAMS[p].weight)]
    IN  [subtotal |-> f64_min(FSum(WeightedScores(breakdown)), PERILAKU_CAP),
         breakdown |-> breakdown]

\* calculate_kualitas_kerja with the two arms of the weight match exchanged.
calculate_kualitas_kerja_swapped(competencies, position) ==
    LET breakdown ==
            [p \in 1..Len(KUALITAS_PARAMS) |->
                to_component(KUALITAS_PARAMS[p].parameter,
                             find_competency_score(competencies,
                                                   KUALITAS_PARAMS[p].parameter,
                                                   KUALITAS_PARAMS[p].aliases),
                             IF position = Eselon
                             THEN KUALITAS_PARAMS[p].staff_weight
                             ELSE KUALITAS_PARAMS[p].eselon_weight)]
        cap == IF position = Eselon THEN KUALITAS_CAP_ESELON ELSE KUALITAS_CAP_STAFF
    IN  [subtotal |-> f64_min(FSum(WeightedScores(breakdown)), cap),
         breakdown |-> breakdown]

\* calculate_kualitas_kerja with the Staff weights on both tracks.
calculate_kualitas_kerja_staff_weights(competencies, position) ==
    LET breakdown ==
            [p \in 1..Len(KUALITAS_PARAMS) |->
                to_component(KUALITAS_PARAMS[p].parameter,
                             find_competency_score(competencies,
                                                   KUALITAS_PARAMS[p].parameter,
                                                   KUALITAS_PARAMS[p].aliases),
                             KUALITAS_PARAMS[p].staff_weight)]
        cap == IF position = Eselon THEN KUALITAS_CAP_ESELON ELSE KUALITAS_CAP_STAFF
    IN  [subtotal |-> f64_min(FSum(WeightedScores(breakdown)), cap),
         breakdown |-> breakdown]

calculate_kualitas_kerja(competencies, position) ==
    LET breakdown ==
            [p \in 1..Len(KUALITAS_PARAMS) |->
                to_component(KUALITAS_PARAMS[p].parameter,
                             find_competency_score(competencies,
                                                   KUALITAS_PARAMS[p].parameter,
                                                   KUALITAS_PARAMS[p].aliases),
                             IF position = Eselon
                             THEN KUALITAS_PARAMS[p].eselon_weight
                             ELSE KUALITAS_PARAMS[p].staff_weight)]
        cap == IF position = Eselon THEN KUALITAS_CAP_ESELON ELSE KUALITAS_CAP_STAFF
    IN  [subtotal |-> f64_min(FSum(WeightedScores(breakdown)), cap),
         breakdown |-> breakdown]

\* compute_leadership_score without the early return for a non-Eselon position.
compute_leadership_score_any_position(position, has_data, override) ==
    IF ~has_data
    THEN Some([raw_score |-> R(0), weighted_score |-> R(0), applied |-> FALSE])
    ELSE LET raw == clamp_score(IF IsSome(override) THEN Unwrap(override)
                                ELSE DEFAULT_LEADERSHIP_SCORE)
         IN  Some([raw_score |-> raw,
                   weighted_score |-> FMul(raw, LEADERSHIP_WEIGHT),
                   applied |-> TRUE])

\* compute_leadership_score without the early return for missing performance data.
compute_leadership_score_always_applied(position, has_data, override) ==
    IF position # Eselon THEN None
    ELSE LET raw == clamp_score(IF IsSome(override) THEN Unwrap(override)
                                ELSE DEFAULT_LEADERSHIP_SCORE)
         IN  Some([raw_score |-> raw,
                   weighted_score |-> FMul(raw, LEADERSHIP_WEIGHT),
                   applied |-> TRUE])

\* compute_leadership_score without clamp_score on the override.
compute_leadership_score_unclamped(position, has_data, override) ==
    IF position # Eselon THEN None
    ELSE IF ~has_data
         THEN Some([raw_score |-> R(0), weighted_score |-> R(0), applied |-> FALSE])
    ELSE LET raw == IF IsSome(override) THEN Unwrap(override)
                    ELSE DEFAULT_LEADERSHIP_SCORE
         IN  Some([raw_score |-> raw,
                   weighted_score |-> FMul(raw, LEADERSHIP_WEIGHT),
                   applied |-> TRUE])

\* compute_leadership_score with the weight the report prints, 20 percent.
compute_leadership_score_printed_weight(position, has_data, override) ==
    IF position # Eselon THEN None
    ELSE IF ~has_data
         THEN Some([raw_score |-> R(0), weighted_score |-> R(0), applied |-> FALSE])
    ELSE LET raw == clamp_score(IF IsSome(override) THEN Unwrap(override)
                                ELSE DEFAULT_LEADERSHIP_SCORE)
         IN  Some([raw_score |-> raw,
                   weighted_score |-> FMul(raw, Frac(20, 100)),
                   applied |-> TRUE])

\* compute_leadership_score that withholds the score when there is data.
compute_leadership_score_withheld_with_data(position, has_data, override) ==
    IF position # Eselon THEN None
    ELSE IF has_data
         THEN Some([raw_score |-> R(0), weighted_score |-> R(0), applied |-> FALSE])
    ELSE LET raw == clamp_score(IF IsSome(override) THEN Unwrap(override)
                                ELSE DEFAULT_LEADERSHIP_SCORE)
         IN  Some([raw_score |-> raw,
                   weighted_score |-> FMul(raw, LEADERSHIP_WEIGHT),
                   applied |-> TRUE])

compute_leadership_score(position, has_data, override) ==
    IF position # Eselon THEN None
    ELSE IF ~has_data
         THEN Some([raw_score |-> R(0), weighted_score |-> R(0), applied |-> FALSE])
    ELSE LET raw == clamp_score(IF IsSome(override) THEN Unwrap(override)
                                ELSE DEFAULT_LEADERSHIP_SCORE)
         IN  Some([raw_score |-> raw,
                   weighted_score |-> FMul(raw, LEADERSHIP_WEIGHT),
                   applied |-> TRUE])

\* calculate_total_score without the leadership contribution.
calculate_total_score_no_leadership(position, perilaku_result, kualitas_result, leadership_result) ==
    f64_min(FAdd(perilaku_result.subtotal, kualitas_result.subtotal), TOTAL_CAP)

\* calculate_total_score with the leadership contribution subtracted.
calculate_total_score_subtracts(position, perilaku_result, kualitas_result, leadership_result) ==
    LET leadership_contrib ==
            IF position = Eselon
            THEN (IF IsSome(leadership_result)
                  THEN Unwrap(leadership_result).weighted_score ELSE R(0))
            ELSE R(0)
    IN  f64_min(FAdd(FAdd(perilaku_result.subtotal, kualitas_result.subtotal),
                     FMul(R(-1), leadership_contrib)),
                TOTAL_CAP)

calculate_total_score(position, perilaku_result, kualitas_result, leadership_result) ==
    LET leadership_contrib ==
            IF position = Eselon
            THEN (IF IsSome(leadership_result)
                  THEN Unwrap(leadership_result).weighted_score ELSE R(0))
            ELSE R(0)
    IN  f64_min(FAdd(FAdd(perilaku_result.subtotal, kualitas_result.subtotal),
                     leadership_contrib),
                TOTAL_CAP)

\* get_performance_rating with the bands compared by > instead of >=.
get_performance_rating_exclusive(total) ==
    IF FGt(total, R(80)) THEN "Sangat Baik"
    ELSE IF FGt(total, R(70)) THEN "Baik"
    ELSE IF FGt(total, R(60)) THEN "Kurang Baik"
    ELSE "Perlu Pembinaan"

get_performance_rating(total) ==
    IF FGe(total, R(80)) THEN "Sangat Baik"
    ELSE IF FGe(total, R(70)) THEN "Baik"
    ELSE IF FGe(total, R(60)) THEN "Kurang Baik"
    ELSE "Perlu Pembinaan"

OptStr(o) == IF IsSome(o) THEN Unwrap(o) ELSE <<>>

\* str::trim
RECURSIVE trim_start(_)
trim_start(s) == IF s # <<>> /\ is_whitespace(Head(s)) THEN trim_start(Tail(s)) ELSE s

RECURSIVE trim_end(_)
trim_end(s) ==
    IF s # <<>> /\ is_whitespace(s[Len(s)]) THEN trim_end(SubSeq(s, 1, Len(s) - 1)) ELSE s

trim(s) == trim_end(trim_start(s))

\* str::to_uppercase on the modelled code points
to_uppercase(s) ==
    [i \in 1..Len(s) |->
        IF s[i] \in AsciiLowerSet
        THEN AsciiUpper[CHOOSE k \in 1..Len(AsciiLower) : AsciiLower[k] = s[i]]
        ELSE IF s[i] = "e_acute" THEN "E_acute" ELSE s[i]]

starts_with(s, prefix) == Len(s) >= Len(prefix) /\ SubSeq(s, 1, Len(prefix)) = prefix

ContainsAny(text, keywords) ==
    \E k \in 1..Len(keywords) : contains(text, normalize_cached(keywords[k]))

\* determine_position_type with the Eselon keywords looked for first.
determine_position_type_eselon_first(emp) ==
    LET combined == OptStr(emp.jabatan) \o <<" ">> \o OptStr(emp.sub_jabatan)
        text == normalize_text(combined)
    IN  IF text # <<>> /\ ContainsAny(text, ESELON_KEYWORDS) THEN Eselon
        ELSE IF text # <<>> /\ ContainsAny(text, STAFF_KEYWORDS) THEN Staff
        ELSE IF IsSome(emp.gol) /\ starts_with(to_uppercase(trim(Unwrap(emp.gol))), <<"I", "V">>)
             THEN Eselon
        ELSE Staff

\* determine_position_type without trim() on the grade code.
determine_position_type_untrimmed(emp) ==
    LET combined == OptStr(emp.jabatan) \o <<" ">> \o OptStr(emp.sub_jabatan)
        text == normalize_text(combined)
    IN  IF text # <<>> /\ ContainsAny(text, STAFF_KEYWORDS) THEN Staff
        ELSE IF text # <<>> /\ ContainsAny(text, ESELON_KEYWORDS) THEN Eselon
        ELSE IF IsSome(emp.gol) /\ starts_with(to_uppercase(Unwrap(emp.gol)), <<"I", "V">>)
             THEN Eselon
        ELSE Staff

determine_position_type(emp) ==
    LET combined == OptStr(emp.jabatan) \o <<" ">> \o OptStr(emp.sub_jabatan)
        text == normalize_text(combined)
    IN  IF text # <<>> /\ ContainsAny(text, STAFF_KEYWORDS) THEN Staff
        ELSE IF text # <<>> /\ ContainsAny(text, ESELON_KEYWORDS) THEN Eselon
        ELSE IF IsSome(emp.gol) /\ starts_with(to_uppercase(trim(Unwrap(emp.gol))), <<"I", "V">>)
             THEN Eselon
        ELSE Staff

----------------------------------------------------------------------------
(* The report context, report.rs:200-283 *)

\* The comparator of competencies.sort_by, report.rs:262-266, as slice::sort_by
\* uses it: compare(a, b) = Less, that is b.raw_score < a.raw_score.  A NaN is
\* Equal to every value (partial_cmp is None, unwrap_or(Equal)).
is_less(a, b) == FLt(b.raw_score, a.raw_score)

Front(s) == SubSeq(s, 1, Len(s) - 1)

Last(s) == s[Len(s)]

RECURSIVE InsertSorted(_, _)
InsertSorted(sorted, x) ==
    IF sorted # <<>> /\ is_less(x, Last(sorted))
    THEN Append(InsertSorted(Front(sorted), x), Last(sorted))
    ELSE Append(sorted, x)

\* The stable sort of list by is_less.
RECURSIVE StableSort(_)
StableSort(list) ==
    IF list = <<>> THEN <<>>
    ELSE CHOOSE r \in {InsertSorted(sorted, Last(list)) :
                            sorted \in {StableSort(Front(list))}} : TRUE

\* compare is a total order on the elements of list: being Equal is transitive.
\* It fails exactly when a NaN meets two different numbers.
ConsistentOrder(list) ==
    LET equal(a, b) == ~is_less(a, b) /\ ~is_less(b, a)
    IN  \A a \in Range(list), b \in Range(list), c \in Range(list) :
            (equal(a, b) /\ equal(b, c)) => equal(a, c)

InsertAnywhere(s, x) ==
    {SubSeq(s, 1, i) \o <<x>> \o SubSeq(s, i + 1, Len(s)) : i \in 0..Len(s)}

RECURSIVE Orderings(_)
Orderings(list) ==
    IF list = <<>> THEN {<<>>}
    ELSE UNION {InsertAnywhere(p, Head(list)) : p \in Orderings(Tail(list))}

\* The outcomes of slice::sort_by: Some(sorted list), or None for a panic.  With a
\* total order the result is the stable sort.  Without one the order of the
\* elements is unspecified, and the sort may panic ("user-provided comparison
\* function does not correctly implement a total order", std since 1.81) once
\* the slice is longer than the 20 elements it sorts by insertion.
sort_by(list) ==
    IF ConsistentOrder(list) THEN {Some(StableSort(list))}
    ELSE {Some(p) : p \in Orderings(list)}
         \cup (IF Len(list) > 20 THEN {None} ELSE {})

\* The section "Penilaian Pimpinan", report.rs:236-252.
leadership_section(leader) ==
    [title |-> <<"P", "e", "n", "i", "l", "a", "i", "a", "n", " ", "P", "i", "m", "p", "i", "n", "a", "n">>,
     cap |-> LEADERSHIP_CAP,
     subtotal |-> leader.weighted_score,
     breakdown |-> <<
        [parameter |-> IF leader.applied THEN <<"N", "i", "l", "a", "i", " ", "P", "i", "m", "p", "i", "n", "a", "n">>
                       ELSE <<"T", "i", "d", "a", "k", " ", "d", "i", "a", "p", "l", "i", "k", "a", "s", "i", "k", "a", "n">>,
         raw_score |-> leader.raw_score,
         weight_percentage |-> R(20),
         weighted_score |-> leader.weighted_score] >>]

\* component_sections, report.rs:216-252.
build_component_sections(position, perilaku_result, kualitas_result, leadership_result) ==
    << [title |-> <<"P", "e", "r", "i", "l", "a", "k", "u", " ", "K", "e", "r", "j", "a", " ", "(", "3", "0", "%", ")">>,
        cap |-> PERILAKU_CAP,
        subtotal |-> perilaku_result.subtotal,
        breakdown |-> perilaku_result.breakdown],
       [title |-> <<"K", "u", "a", "l", "i", "t", "a", "s", " ", "K", "e", "r", "j", "a">>,
        cap |-> IF position = Eselon THEN KUALITAS_CAP_ESELON ELSE KUALITAS_CAP_STAFF,
        subtotal |-> kualitas_result.subtotal,
        breakdown |-> kualitas_result.breakdown] >>
    \o (IF IsSome(leadership_result)
        THEN <<leadership_section(Unwrap(leadership_result))>>
        ELSE <<>>)

\* scores zipped with the normalized scores, report.rs:254-260.
zip_competencies(rows, normalized) ==
    LET n == IF Len(rows) < Len(normalized) THEN Len(rows) ELSE Len(normalized)
    IN  [i \in 1..n |->
            [name |-> rows[i].name,
             raw_score |-> normalized[i].raw_score,
             original_score |-> normalized[i].original_score]]

\* build_report_context up to the sort: every field of the context but
\* competencies, which is the list `unsorted` after sort_by.
report_context(rows, emp) ==
    LET normalized_pair == normalize_competencies(rows)
        position == determine_position_type(emp)
        p == calculate_perilaku_kinerja(normalized_pair[1])
        k == calculate_kualitas_kerja(normalized_pair[1], position)
        has_data == normalized_pair[1] # <<>>
                    /\ (FGt(p.subtotal, R(0)) \/ FGt(k.subtotal, R(0)))
        leader == compute_leadership_score(position, has_data, None)
        total == calculate_total_score(position, p, k, leader)
    IN  [normalization_result |-> normalized_pair[1],
         normalization_scale |-> normalized_pair[2],
         position_type |-> position,
         perilaku |-> p,
         kualitas |-> k,
         has_performance_data |-> has_data,
         leadership |-> leader,
         total_score |-> total,
         rating |-> get_performance_rating(total),
         component_sections |-> build_component_sections(position, p, k, leader),
         unsorted |-> zip_competencies(rows, normalized_pair[1])]

\* The rating bands printed on the cover page, report.rs:726-730.
bands == <<
    <<<<"S", "A", "N", "G", "A", "T", " ", "B", "A", "I", "K">>, <<">", "=", " ", "8", "0", ",", "0", "0">>>>,
    <<<<"B", "A", "I", "K">>, <<"7", "0", ",", "0", "0", " ", "-", " ", "7", "9", ",", "9", "9">>>>,
    <<<<"K", "U", "R", "A", "N", "G", " ", "B", "A", "I", "K">>, <<"6", "5", ",", "0", "0", " ", "-", " ", "6", "9", ",", "9", "9">>>> >>

----------------------------------------------------------------------------
(* CsvParser, csv_parser/mod.rs *)

\* str::find for a char: the index of its first occurrence, 0 for None.
find(s, ch) == FirstIndexIn(s, {ch})

\* extract_employee_name without .trim().
extract_employee_name_untrimmed(field) ==
    LET start == find(field, "[")
        end == find(field, "]")
    IN  IF start = 0 \/ end = 0 THEN None
        ELSE IF start < end THEN Some(SubSeq(field, start + 1, end - 1))
        ELSE None

\* csv_parser/mod.rs:160-170; either `?` returns None.
extract_employee_name(field) ==
    LET start == find(field, "[")
        end == find(field, "]")
    IN  IF start = 0 \/ end = 0 THEN None
        ELSE IF start < end THEN Some(trim(SubSeq(field, start + 1, end - 1)))
        ELSE None

\* content.lines().next().unwrap_or(""): the text before the first line feed,
\* without a carriage return that ends it.
first_line(content) ==
    LET lf == find(content, "\n")
        line == IF lf = 0 THEN content ELSE SubSeq(content, 1, lf - 1)
    IN  IF line # <<>> /\ line[Len(line)] = "\r" THEN SubSeq(line, 1, Len(line) - 1)
        ELSE line

\* first_line.matches(d).count()
matches_count(s, d) == Cardinality({i \in 1..Len(s) : s[i] = d})

delimiters == <<",", "\t", ";", "|">>

\* One step of the stable sort by Reverse(count): pair goes behind every pair
\* whose count is not smaller.
RECURSIVE InsertByCount(_, _)
InsertByCount(sorted, pair) ==
    IF sorted # <<>> /\ sorted[Len(sorted)][2] < pair[2]
    THEN Append(InsertByCount(SubSeq(sorted, 1, Len(sorted) - 1), pair), sorted[Len(sorted)])
    ELSE Append(sorted, pair)

\* counts.sort_by_key(|&(_, count)| Reverse(count)); sort_by_key is stable.
RECURSIVE sort_by_key(_)
sort_by_key(counts) ==
    IF counts = <<>> THEN <<>>
    ELSE CHOOSE r \in {InsertByCount(sorted, counts[Len(counts)]) :
                            sorted \in {sort_by_key(SubSeq(counts, 1, Len(counts) - 1))}} : TRUE

\* detect_delimiter with the last of the most frequent candidates.
detect_delimiter_last_on_tie(content) ==
    LET line == first_line(content)
        counts == [i \in 1..Len(delimiters) |-> <<delimiters[i], matches_count(line, delimiters[i])>>]
        best == CHOOSE i \in 1..Len(counts) :
                    \A j \in 1..Len(counts) :
                        counts[j][2] < counts[i][2] \/ (counts[j][2] = counts[i][2] /\ j <= i)
    IN  counts[best][1]

\* csv_parser/mod.rs:70-83
detect_delimiter(content) ==
    LET line == first_line(content)
        counts == [i \in 1..Len(delimiters) |-> <<delimiters[i], matches_count(line, delimiters[i])>>]
        sorted == sort_by_key(counts)
    IN  IF sorted # <<>> THEN sorted[1][1] ELSE ","

Quote == "\""

\* str::trim_matches for a char
RECURSIVE trim_start_matches(_, _)
trim_start_matches(s, ch) ==
    IF s # <<>> /\ Head(s) = ch THEN trim_start_matches(Tail(s), ch) ELSE s

RECURSIVE trim_end_matches(_, _)
trim_end_matches(s, ch) ==
    IF s # <<>> /\ s[Len(s)] = ch THEN trim_end_matches(SubSeq(s, 1, Len(s) - 1), ch) ELSE s

trim_matches(s, ch) == trim_end_matches(trim_start_matches(s, ch), ch)

\* str::split_whitespace: the maximal runs without whitespace, in order.
RECURSIVE split_whitespace(_)
split_whitespace(s) ==
    LET rest == trim_start(s)
        stop == FirstIndexIn(rest, {c \in Range(rest) : is_whitespace(c)})
    IN  IF rest = <<>> THEN <<>>
        ELSE IF stop = 0 THEN <<rest>>
        ELSE <<SubSeq(rest, 1, stop - 1)>> \o split_whitespace(SubSeq(rest, stop, Len(rest)))

\* The loop of clean_field, csv_parser/mod.rs:147-154.
RECURSIVE JoinWithSpace(_)
JoinWithSpace(parts) ==
    IF parts = <<>> THEN <<>>
    ELSE IF Len(parts) = 1 THEN parts[1]
    ELSE JoinWithSpace(SubSeq(parts, 1, Len(parts) - 1)) \o <<" ">> \o parts[Len(parts)]

\* clean_field without .trim_matches('"').
clean_field_keeps_quotes(field) ==
    JoinWithSpace(split_whitespace(trim(trim(field))))

\* csv_parser/mod.rs:143-158
clean_field(field) ==
    LET trimmed == trim(trim_matches(trim(field), Quote))
    IN  JoinWithSpace(split_whitespace(trimmed))

----------------------------------------------------------------------------
(* The position status of the employee list, analytics.rs *)

\* analytics.rs:47
analytics_STAFF_KEYWORDS == <<<<"s", "t", "a", "f", "f">>, <<"s", "t", "a", "f">>>>

\* analytics.rs:48-63
analytics_ESELON_KEYWORDS == <<
    <<"e", "s", "e", "l", "o", "n">>, <<"k", "e", "p", "a", "l", "a">>, <<"s", "e", "k", "r", "e", "t", "a", "r", "i", "s">>, <<"k", "a", "b", "i", "d">>, <<"k", "a", "b", "a", "g">>, <<"k", "a", "s", "u", "b", "a", "g">>,
    <<"k", "e", "p", "a", "l", "a", " ", "s", "e", "k", "s", "i">>, <<"k", "a", "s", "i">>, <<"k", "o", "o", "r", "d", "i", "n", "a", "t", "o", "r">>, <<"p", "e", "n", "g", "a", "w", "a", "s">>, <<"s", "u", "b", " ", "b", "a", "g", "i", "a", "n">>,
    <<"s", "u", "b", "b", "a", "g", "i", "a", "n">>, <<"s", "u", "b", "b", "i", "d", "a", "n", "g">>, <<"s", "u", "b", " ", "b", "i", "d", "a", "n", "g">> >>

\* Compatibility decomposition of one code point: the canonical one, and a
\* space for the no-break space.
nfkd_char(ch) == IF ch = "nbsp" THEN <<" ">> ELSE nfd_char(ch)

RECURSIVE nfkd(_)
nfkd(s) == IF s = <<>> THEN <<>> ELSE nfkd_char(Head(s)) \o nfkd(Tail(s))

\* analytics.rs:69-83
sanitize_text(value) ==
    LET decomposed == SelectSeq(nfkd(value), LAMBDA ch : ~is_combining_mark(ch))
        lowered == to_lowercase(decomposed)
        mapped == [i \in 1..Len(lowered) |->
                    IF is_ascii_alphabetic(lowered[i]) \/ is_ascii_whitespace(lowered[i])
                    THEN lowered[i] ELSE " "]
    IN  JoinWithSpace(split_whitespace(mapped))

AnyKeyword(text, keywords) == \E k \in 1..Len(keywords) : contains(text, keywords[k])

\* analytics.rs:85-104
derive_position_status(jabatan, sub_jabatan, gol) ==
    LET combined == OptStr(jabatan) \o <<" ">> \o OptStr(sub_jabatan)
        normalized == sanitize_text(combined)
        gol_value == to_uppercase(trim(OptStr(gol)))
    IN  IF normalized # <<>> /\ AnyKeyword(normalized, analytics_STAFF_KEYWORDS) THEN "Staff"
        ELSE IF normalized # <<>> /\ AnyKeyword(normalized, analytics_ESELON_KEYWORDS)
        THEN "Eselon"
        ELSE IF starts_with(gol_value, <<"I", "V">>) THEN "Eselon"
        ELSE "Staff"

\* SQLite TRIM(X): the spaces at both ends are removed, no other character.
sql_trim(s) == trim_matches(s, " ")

\* SQLite LOWER(X) and UPPER(X) change the ASCII letters only.
sql_lower(s) == [i \in 1..Len(s) |-> IF s[i] \in AsciiUpperSet THEN UpperToLower[s[i]] ELSE s[i]]

sql_upper(s) ==
    [i \in 1..Len(s) |->
        IF s[i] \in AsciiLowerSet
        THEN AsciiUpper[CHOOSE k \in 1..Len(AsciiLower) : AsciiLower[k] = s[i]]
        ELSE s[i]]

\* ROLE_ORDER_EXPR, analytics.rs:66-67
role_order_expr(jabatan, sub_jabatan) ==
    LET joined == sql_trim(OptStr(jabatan) \o <<" ">> \o OptStr(sub_jabatan))
    IN  sql_lower(replace(replace(replace(joined, ".", " "), ",", " "), "/", " "))

\* X LIKE 'IV%': LIKE compares ASCII letters without regard to case.
like_iv(s) == starts_with(sql_upper(s), <<"I", "V">>)

\* position_case, analytics.rs:473-482; instr(role, keyword) > 0 is containment.
position_case(jabatan, sub_jabatan, gol) ==
    LET role == role_order_expr(jabatan, sub_jabatan)
    IN  IF AnyKeyword(role, analytics_STAFF_KEYWORDS) THEN "Staff"
        ELSE IF AnyKeyword(role, analytics_ESELON_KEYWORDS) THEN "Eselon"
        ELSE IF like_iv(sql_upper(OptStr(gol))) THEN "Eselon"
        ELSE "Staff"

\* The status of one row of list_employees, analytics.rs:568-572.
position_status_of(emp) ==
    LET position_status == position_case(emp.jabatan, emp.sub_jabatan, emp.gol)
    IN  IF position_status \in {"Staff", "Eselon"} THEN position_status
        ELSE derive_position_status(emp.jabatan, emp.sub_jabatan, emp.gol)

----------------------------------------------------------------------------
(* Inputs *)

\* Longest list of score rows that is enumerated freely.
MaxScores == 2

Row(name, raw_value, numeric_value) ==
    [name |-> name, raw_value |-> raw_value, numeric_value |-> numeric_value]

\* A cell of a sheet: empty cells are not imported (csv_parser/mod.rs:291).
SheetCells(k) == IF k = Len(PERILAKU_PARAMS) + 1 THEN {<<"5", "0">>, <<"1", "0", "0">>} ELSE {<<"1", "0", "0">>}

\* The score lists of an employee over the first k columns of the sheet.
RECURSIVE SheetRows(_)
SheetRows(k) ==
    IF k = 0 THEN {<<>>}
    ELSE LET shorter == SheetRows(k - 1)
         IN  shorter \cup
             {Append(s, Row(SheetNames[k], c, None)) : s \in shorter, c \in SheetCells(k)}

Sheets == SheetRows(Len(SheetNames))

\* Cell texts with the number the dataset's rating mapping gives them, if any.
ShortCells == {
    <<<<"0">>, None>>, <<<<"-", "1">>, None>>, <<<<"4">>, None>>, <<<<"3", ",", "5">>, None>>,
    <<<<"2", "0", "0">>, None>>, <<<<"N", "a", "N">>, None>>, <<<<"i", "n", "f">>, None>>, <<<<"B", "a", "i", "k">>, Some(R(75))>> }

\* A competency outside the rubric still takes part in the scale.
OtherCells == {<<<<"2", "0", "0">>, None>>, <<<<"i", "n", "f">>, None>>}

ShortRows ==
    {Row(n, c[1], c[2]) : n \in RubricNames, c \in ShortCells}
    \cup {Row(OtherName, c[1], c[2]) : c \in OtherCells}

SeqsUpTo(S, n) == UNION {[1..k -> S] : k \in 0..n}

ShortLists == SeqsUpTo(ShortRows, MaxScores)

\* Raw values around every threshold of determine_scale.
ScaleCells == {
    <<<<"-", "3">>, None>>, <<<<"0">>, None>>, <<<<"0", ".", "5">>, None>>, <<<<"4">>, None>>,
    <<<<"5">>, None>>, <<<<"5", ",", "5">>, None>>, <<<<"1", "0">>, None>>, <<<<"1", "0", ".", "5">>, None>>,
    <<<<"2", "0">>, None>>, <<<<"2", "1">>, None>>, <<<<"7", "5">>, None>>, <<<<"1", "0", "0">>, None>>,
    <<<<"1", "0", "1">>, None>>, <<<<"2", "5", "0">>, None>>, <<<<"n", "/", "a">>, None>>,
    <<<<"S", "a", "n", "g", "a", "t", " ", "B", "a", "i", "k">>, Some(R(85))>>, <<<<"n", "a", "n">>, Some(NaN)>>, <<<<"-", "i", "n", "f">>, None>> }

ScaleRows == {Row(n, c[1], c[2]) : n \in ScaleNames, c \in ScaleCells}

ScaleLists == SeqsUpTo(ScaleRows, MaxScores)

Emp(jabatan, sub_jabatan, gol) ==
    [jabatan |-> jabatan, sub_jabatan |-> sub_jabatan, gol |-> gol]

NoEmployee == Emp(None, None, None)

SheetEmployees == {
    Emp(Some(<<"K", "e", "p", "a", "l", "a", " ", "S", "e", "k", "s", "i", " ", "U", "m", "u", "m">>), None, Some(<<"I", "I", "I", "/", "a">>)),
    Emp(Some(<<"P", "r", "a", "n", "a", "t", "a", " ", "K", "o", "m", "p", "u", "t", "e", "r">>), Some(<<"P", "e", "l", "a", "k", "s", "a", "n", "a">>), Some(<<"I", "I", "I", "/", "a">>)) }

Employees == SheetEmployees \cup {
    Emp(Some(<<"S", "t", "a", "f", "f", " ", "A", "d", "m", "i", "n", "i", "s", "t", "r", "a", "s", "i">>), Some(<<"S", "u", "b", " ", "B", "a", "g", "i", "a", "n", " ", "U", "m", "u", "m">>), Some(<<"I", "V", "/", "b">>)),
    Emp(None, None, Some(<<"i", "v", "/", "a">>)),
    NoEmployee }

Overrides == {None, Some(R(-5)), Some(R(0)), Some(R(50)), Some(R(100)), Some(R(120)),
              Some(NaN), Some(PosInf)}

EmptyResult == [subtotal |-> R(0), breakdown |-> <<>>]

Subtotal(s) == [subtotal |-> s, breakdown |-> <<>>]

PerilakuSamples == {R(0), R(20), Frac(51, 2)}

KualitasSamples == {R(0), R(35), Frac(85, 2)}

LeadershipSamples == {compute_leadership_score(Eselon, h, o) : h \in BOOLEAN, o \in Overrides}

TotalSamples == {R(0), Frac(5999, 100), R(60), Frac(6499, 100), R(65), Frac(6999, 100),
                 R(70), Frac(7999, 100), R(80), R(85)}

\* Raw values of a four-point sheet.
LikertCells == {<<"0">>, <<"1">>, <<"2">>, <<"3">>, <<"4">>}

LikertLists == SeqsUpTo({Row(n, c, None) : n \in {<<"K", "e", "h", "a", "d", "i", "r", "a", "n">>}, c \in LikertCells}, MaxScores)

\* Length of a score list that slice::sort_by does not sort by insertion.
LongLen == 21

\* A long sheet: 50 for the quality of work, the cell c, and 100 elsewhere.
LongList(c) ==
    [i \in 1..LongLen |->
        IF i = 1 THEN Row(<<"K", "u", "a", "l", "i", "t", "a", "s", " ", "K", "i", "n", "e", "r", "j", "a">>, <<"5", "0">>, None)
        ELSE IF i = 4 THEN Row(OtherName, c, None)
        ELSE Row(OtherName, <<"1", "0", "0">>, None)]

LongLists == {LongList(c) : c \in {<<"1", "0", "0">>, <<"N", "a", "N">>}}

\* Role texts and grade codes as the employee form stores them (untrimmed).
Jabatans == {
    None, Some(<<>>), Some(<<"K", "e", "p", "a", "l", "a", " ", "S", "e", "k", "s", "i", " ", "U", "m", "u", "m">>), Some(<<"S", "t", "a", "f", "f", " ", "A", "d", "m", "i", "n", "i", "s", "t", "r", "a", "s", "i">>),
    Some(<<"P", "r", "a", "n", "a", "t", "a", " ", "K", "o", "m", "p", "u", "t", "e", "r">>), Some(<<"S", "u", "b", " ", "B", "a", "g", "i", "a", "n">>), Some(<<"S", "u", "b", " ", " ", "B", "a", "g", "i", "a", "n">>),
    Some(<<"K", "e", "p", "a", "l", "a", " ", "S", "t", "a", "f">>), Some(<<"S", "E_acute", "K", "R", "E", "T", "A", "R", "I", "S">>) }

SubJabatans == {None, Some(<<"S", "u", "b", " ", "B", "a", "g", "i", "a", "n", " ", "U", "m", "u", "m">>), Some(<<"P", "e", "l", "a", "k", "s", "a", "n", "a">>)}

Gols == {None, Some(<<"I", "I", "I", "/", "a">>), Some(<<"I", "V", "/", "b">>), Some(<<"i", "v", "/", "a">>), Some(<<" ", "I", "V", "/", "c">>)}

RoleEmployees == {Emp(j, s, g) : j \in Jabatans, s \in SubJabatans, g \in Gols}

\* Normalized scores handed to find_competency_score.
CompetencyScore(name, raw_score) ==
    [name |-> name, raw_score |-> raw_score, original_score |-> raw_score]

FindNames == {<<"A", "b", "s", "e", "n", "s", "i">>, <<"K", "e", "h", "a", "d", "i", "r", "a", "n">>, <<"L", "a", "i", "n", "n", "y", "a">>}

FindScores == {R(30), R(60), R(150), NaN}

FindLists ==
    SeqsUpTo({CompetencyScore(n, v) : n \in FindNames, v \in FindScores}, MaxScores)

\* A rubric parameter with its aliases, in several alias orders.
FindTargets == {
    <<PERILAKU_PARAMS[2].parameter, <<<<"k", "e", "h", "a", "d", "i", "r", "a", "n">>, <<"a", "b", "s", "e", "n", "s", "i">>>>>>,
    <<PERILAKU_PARAMS[2].parameter, <<<<"a", "b", "s", "e", "n", "s", "i">>, <<"k", "e", "h", "a", "d", "i", "r", "a", "n">>>>>>,
    <<PERILAKU_PARAMS[2].parameter, <<>>>>,
    <<PERILAKU_PARAMS[3].parameter, PERILAKU_PARAMS[3].aliases>> }

\* A competency name as sheets decorate it: numbered, with a bracketed
\* qualifier, or with punctuation and a digit.
Decorations(name) == {
    <<"1", ".", " ">> \o name,
    name \o <<" ", "d", "a", "n", " ", "T", "e", "p", "a", "t", " ", "W", "a", "k", "t", "u", " ", "[", "X", "]">>,
    SubSeq(name, 1, 2) \o <<"-">> \o SubSeq(name, 3, Len(name)) \o <<"2">> }

\* Texts handed to normalize_text.
Texts ==
    Range(SheetNames) \cup ShortNames \cup Range(ESELON_KEYWORDS)
    \cup UNION {Decorations(n) : n \in FindNames}
    \cup {<<>>, <<" ", " ">>, <<"S", "E_acute", "K", "R", "E", "T", "A", "R", "I", "S", " ", "D", "e_acute", "s", "a">>, <<"S", "u", "b", "nbsp", "B", "a", "g", "i", "a", "n", " ", " ", "U", "m", "u", "m">>,
          <<"C", "a", "f", "e", "cm_acute", " ", "2", "4", "/", "7">>, <<"K", "e", "p", "a", "l", "a", "nbsp", "S", "e", "k", "s", "i">>}

\* Raw texts for parse_numeric_score, with the number of the rating mapping if any.
ParseCells == {
    <<<<"7">>, None>>, <<<<"+", "7">>, None>>, <<<<"-", "2", ".", "5">>, None>>, <<<<"3", ",", "2", "5">>, None>>, <<<<".", "5">>, None>>,
    <<<<"5", ".">>, None>>, <<<<"1", "e", "2">>, None>>, <<<<"2", ",", "5", "E", "-", "1">>, None>>, <<<<>>, None>>, <<<<" ", "4">>, None>>,
    <<<<"4", " ">>, None>>, <<<<"1", ".", "2", "3", "4", ",", "5">>, None>>, <<<<"1", ",", "2", "3", "4", ".", "5">>, None>>, <<<<"4", "/", "5">>, None>>,
    <<<<",">>, None>>, <<<<"-">>, None>>, <<<<"e", "5">>, None>>, <<<<"B", "a", "i", "k">>, None>>,
    <<<<"B", "a", "i", "k">>, Some(R(75))>>, <<<<"3", ",", "5">>, Some(R(90))>>, <<<<"1", "2">>, Some(R(-4))>>,
    <<<<"I", "n", "f", "i", "n", "i", "t", "y">>, None>>, <<<<"-", "n", "a", "n">>, None>>, <<<<"9">>, Some(PosInf)>> }

ParseLists == {<<Row(n, c[1], c[2])>> : n \in {<<"K", "e", "h", "a", "d", "i", "r", "a", "n">>}, c \in ParseCells}

\* Employees of the list: those of the classifier, and role texts with
\* punctuation, a hyphen and a no-break space.
ListedEmployees ==
    RoleEmployees
    \cup {Emp(Some(j), None, Some(<<"I", "I", "I", "/", "a">>)) :
            j \in {<<"K", "a", ".", "B", "i", "d", " ", "S", "o", "s", "i", "a", "l">>, <<"S", "u", "b", "-", "B", "a", "g", "i", "a", "n", " ", "U", "m", "u", "m">>, <<"K", "e", "p", "a", "l", "a", "nbsp", "S", "e", "k", "s", "i">>, <<"K", "a", "b", "i", "d", "/", "K", "a", "s", "i">>}}

\* Longest header text tried on extract_employee_name.
MaxHeader == 4

HeaderTexts ==
    SeqsUpTo({"[", "]", " ", "A"}, MaxHeader)
    \cup {<<"1", ".", " ", "I", "n", "i", "s", "i", "a", "t", "i", "f", " ", "&", " ", "F", "l", "e", "k", "s", "i", "b", "i", "l", "i", "t", "a", "s", " ", "[", "G", "U", "S", "N", "A", "N", "D", "A", " ", "E", "F", "F", "E", "N", "D", "I", ",", " ", "S", ".", "P", "d", ",", " ", "M", "M", "]">>,
          <<"K", "e", "h", "a", "d", "i", "r", "a", "n", " ", "[", "nbsp", "B", "u", "d", "i", " ", "]", " ", "[", "x", "]">>}

\* Longest content tried on detect_delimiter.
MaxContent == 3

Contents ==
    SeqsUpTo({",", "\t", ";", "|", "\n", "\r", "a"}, MaxContent)
    \cup {<<"a", ",", "b", ",", "c">>, <<"a", "\t", "b", "\t", "c">>, <<"a", ";", "b", ";", "c">>,
          <<"a", ";", "b", ";", "\r", "\n", "1", ",", "2", ",", "3", ",", "4">>}

\* Longest field tried on clean_field.
MaxField == 4

Fields ==
    SeqsUpTo({" ", "\t", Quote, "a"}, MaxField)
    \cup {<<" ", " ", "K", "u", "r", "a", "n", "g", " ", " ", "B", "a", "i", "k", " ", " ">>, <<"\t", "B", "a", "i", "k">>,
          <<Quote, " ", "K", "u", "r", "a", "n", "g", "nbsp", " ", "B", "a", "i", "k", Quote, " ">>}

----------------------------------------------------------------------------
(* Specification *)

Defaults ==
    /\ pc = "call"
    /\ previous = None

NoInputs ==
    /\ scores = <<>>
    /\ employee = NoEmployee

NoReport ==
    /\ component_sections = <<>>
    /\ report_competencies = <<>>

NoMatcher ==
    /\ arg_parameter = <<>>
    /\ arg_aliases = <<>>
    /\ matched_score = R(0)

NoText ==
    /\ input_text = <<>>
    /\ output_text = <<>>

NoOutputs ==
    /\ normalization_result = <<>>
    /\ normalization_scale = R(0)
    /\ rating = ""
    /\ NoReport
    /\ NoMatcher
    /\ NoText
    /\ tasks = <<>>

NoEngine ==
    /\ override_score = None
    /\ position_type = Staff
    /\ perilaku = EmptyResult
    /\ kualitas = EmptyResult
    /\ has_performance_data = FALSE
    /\ leadership = None
    /\ total_score = R(0)

InitReport ==
    /\ entry = "build_report_context"
    /\ \/ scores \in Sheets \cup LongLists /\ employee \in SheetEmployees
       \/ scores \in ShortLists /\ employee \in Employees
    /\ override_score = None
    /\ position_type = Staff
    /\ perilaku = EmptyResult
    /\ kualitas = EmptyResult
    /\ has_performance_data = FALSE
    /\ leadership = None
    /\ total_score = R(0)
    /\ NoOutputs

InitNormalize ==
    /\ entry = "normalize_competencies"
    /\ scores \in ScaleLists \cup LikertLists \cup ParseLists
    /\ employee = NoEmployee
    /\ override_score = None
    /\ position_type = Staff
    /\ perilaku = EmptyResult
    /\ kualitas = EmptyResult
    /\ has_performance_data = FALSE
    /\ leadership = None
    /\ total_score = R(0)
    /\ NoOutputs

InitLeadership ==
    /\ entry = "compute_leadership_score"
    /\ NoInputs
    /\ override_score \in Overrides
    /\ position_type \in PositionType
    /\ has_performance_data \in BOOLEAN
    /\ perilaku = EmptyResult
    /\ kualitas = EmptyResult
    /\ leadership = None
    /\ total_score = R(0)
    /\ NoOutputs

InitTotal ==
    /\ entry = "calculate_total_score"
    /\ NoInputs
    /\ override_score = None
    /\ position_type \in PositionType
    /\ perilaku \in {Subtotal(s) : s \in PerilakuSamples}
    /\ kualitas \in {Subtotal(s) : s \in KualitasSamples}
    /\ has_performance_data = FALSE
    /\ leadership \in (IF position_type = Eselon THEN LeadershipSamples ELSE {None})
    /\ total_score = R(0)
    /\ NoOutputs

InitRating ==
    /\ entry = "get_performance_rating"
    /\ NoInputs
    /\ override_score = None
    /\ position_type = Staff
    /\ perilaku = EmptyResult
    /\ kualitas = EmptyResult
    /\ has_performance_data = FALSE
    /\ leadership = None
    /\ total_score \in TotalSamples
    /\ NoOutputs

InitPosition ==
    /\ entry = "determine_position_type"
    /\ scores = <<>>
    /\ employee \in RoleEmployees
    /\ NoEngine
    /\ NoOutputs

InitFind ==
    /\ entry = "find_competency_score"
    /\ NoInputs
    /\ NoEngine
    /\ normalization_result \in FindLists
    /\ \E target \in FindTargets :
        /\ arg_parameter = target[1]
        /\ arg_aliases = target[2]
    /\ matched_score = R(0)
    /\ normalization_scale = R(0)
    /\ rating = ""
    /\ NoReport
    /\ NoText
    /\ tasks = <<>>

InitText ==
    /\ entry = "normalize_text"
    /\ NoInputs
    /\ NoEngine
    /\ normalization_result = <<>>
    /\ normalization_scale = R(0)
    /\ rating = ""
    /\ NoReport
    /\ NoMatcher
    /\ input_text \in Texts
    /\ output_text = <<>>
    /\ tasks = <<>>

InitCsv ==
    /\ NoInputs
    /\ NoEngine
    /\ normalization_result = <<>>
    /\ normalization_scale = R(0)
    /\ rating = ""
    /\ NoReport
    /\ NoMatcher
    /\ \/ entry = "extract_employee_name" /\ input_text \in HeaderTexts
       \/ entry = "detect_delimiter" /\ input_text \in Contents
       \/ entry = "clean_field" /\ input_text \in Fields
    /\ output_text = <<>>
    /\ tasks = <<>>

InitList ==
    /\ entry = "list_employees"
    /\ scores = <<>>
    /\ employee \in ListedEmployees
    /\ NoEngine
    /\ normalization_result = <<>>
    /\ normalization_scale = R(0)
    /\ rating = ""
    /\ NoReport
    /\ NoMatcher
    /\ NoText
    /\ tasks = <<>>

Init ==
    /\ Defaults
    /\ \/ InitReport
       \/ InitNormalize
       \/ InitLeadership
       \/ InitTotal
       \/ InitRating
       \/ InitPosition
       \/ InitFind
       \/ InitText
       \/ InitCsv
       \/ InitList

\* build_report_context, report.rs:200-283.  A panic of sort_by returns nothing.
BuildReport ==
    /\ entry = "build_report_context"
    /\ pc = "call"
    /\ \E normalized_pair \in {normalize_competencies(scores)},
          position \in {determine_position_type(employee)} :
        \E p \in {calculate_perilaku_kinerja(normalized_pair[1])},
           k \in {calculate_kualitas_kerja(normalized_pair[1], position)} :
            \E has_data \in {normalized_pair[1] # <<>>
                              /\ (FGt(p.subtotal, R(0)) \/ FGt(k.subtotal, R(0)))} :
                \E leader \in {compute_leadership_score(position, has_data, None)} :
                    \E total \in {calculate_total_score(position, p, k, leader)},
                       unsorted \in {zip_competencies(scores, normalized_pair[1])} :
                        \E sorted \in sort_by(unsorted) :
                            IF IsSome(sorted)
                            THEN /\ normalization_result' = normalized_pair[1]
                                 /\ normalization_scale' = normalized_pair[2]
                                 /\ position_type' = position
                                 /\ perilaku' = p
                                 /\ kualitas' = k
                                 /\ has_performance_data' = has_data
                                 /\ leadership' = leader
                                 /\ total_score' = total
                                 /\ rating' = get_performance_rating(total)
                                 /\ component_sections' =
                                        build_component_sections(position, p, k, leader)
                                 /\ report_competencies' = Unwrap(sorted)
                                 /\ pc' = "done"
                            ELSE /\ pc' = "panicked"
                                 /\ UNCHANGED <<normalization_result, normalization_scale,
                                                position_type, perilaku, kualitas,
                                                has_performance_data, leadership,
                                                total_score, rating, report_vars>>
    /\ UNCHANGED <<entry, scores, employee, override_score, previous, matcher_vars,
                   text_vars, tasks>>

\* normalize_competencies, report.rs:285-310
Normalize ==
    /\ entry = "normalize_competencies"
    /\ pc = "call"
    /\ \E normalized_pair \in {normalize_competencies(scores)} :
        /\ normalization_result' = normalized_pair[1]
        /\ normalization_scale' = normalized_pair[2]
    /\ pc' = "done"
    /\ UNCHANGED <<entry, scores, employee, override_score, position_type, perilaku,
                   kualitas, has_performance_data, leadership, total_score, rating,
                   previous, report_vars, matcher_vars, text_vars, tasks>>

\* compute_leadership_score, report.rs:398-421
ComputeLeadership ==
    /\ entry = "compute_leadership_score"
    /\ pc = "call"
    /\ leadership' = compute_leadership_score(position_type, has_performance_data,
                                              override_score)
    /\ pc' = "done"
    /\ UNCHANGED <<entry, scores, employee, override_score, normalization_result,
                   normalization_scale, position_type, perilaku, kualitas,
                   has_performance_data, total_score, rating, previous,
                   report_vars, matcher_vars, text_vars, tasks>>

\* calculate_total_score, report.rs:423-436
CalculateTotal ==
    /\ entry = "calculate_total_score"
    /\ pc = "call"
    /\ total_score' = calculate_total_score(position_type, perilaku, kualitas, leadership)
    /\ pc' = "done"
    /\ UNCHANGED <<entry, scores, employee, override_score, normalization_result,
                   normalization_scale, position_type, perilaku, kualitas,
                   has_performance_data, leadership, rating, previous,
                   report_vars, matcher_vars, text_vars, tasks>>

\* get_performance_rating, report.rs:438-448
Rate ==
    /\ entry = "get_performance_rating"
    /\ pc = "call"
    /\ rating' = get_performance_rating(total_score)
    /\ pc' = "done"
    /\ UNCHANGED <<entry, scores, employee, override_score, normalization_result,
                   normalization_scale, position_type, perilaku, kualitas,
                   has_performance_data, leadership, total_score, previous,
                   report_vars, matcher_vars, text_vars, tasks>>

\* A second call of get_performance_rating, on another total; the first call is kept.
RateAgain ==
    /\ entry = "get_performance_rating"
    /\ pc = "done"
    /\ previous = None
    /\ \E t \in TotalSamples :
        /\ total_score' = t
        /\ rating' = get_performance_rating(t)
    /\ previous' = Some([total_score |-> total_score, rating |-> rating])
    /\ UNCHANGED <<entry, pc, scores, employee, override_score, normalization_result,
                   normalization_scale, position_type, perilaku, kualitas,
                   has_performance_data, leadership,
                   report_vars, matcher_vars, text_vars, tasks>>

\* determine_position_type, report.rs:499-533
Classify ==
    /\ entry = "determine_position_type"
    /\ pc = "call"
    /\ position_type' = determine_position_type(employee)
    /\ pc' = "done"
    /\ UNCHANGED <<entry, scores, employee, override_score, normalization_result,
                   normalization_scale, perilaku, kualitas, has_performance_data,
                   leadership, total_score, rating, previous,
                   report_vars, matcher_vars, text_vars, tasks>>

\* A second call of determine_position_type, after the role text of the employee
\* was edited (commands/employee.rs:148-161); the first call is kept.
ClassifyAgain ==
    /\ entry = "determine_position_type"
    /\ pc = "done"
    /\ previous = None
    /\ \E j \in Jabatans, s \in SubJabatans :
        \E edited \in {[employee EXCEPT !.jabatan = j, !.sub_jabatan = s]} :
            /\ employee' = edited
            /\ position_type' = determine_position_type(edited)
    /\ previous' = Some([employee |-> employee, position_type |-> position_type])
    /\ UNCHANGED <<entry, pc, scores, override_score, normalization_result,
                   normalization_scale, perilaku, kualitas, has_performance_data,
                   leadership, total_score, rating,
                   report_vars, matcher_vars, text_vars, tasks>>

\* find_competency_score, report.rs:459-478
FindScore ==
    /\ entry = "find_competency_score"
    /\ pc = "call"
    /\ matched_score' = find_competency_score(normalization_result, arg_parameter,
                                              arg_aliases)
    /\ pc' = "done"
    /\ UNCHANGED <<entry, scores, employee, override_score, normalization_result,
                   normalization_scale, position_type, perilaku, kualitas,
                   has_performance_data, leadership, total_score, rating, previous,
                   report_vars, arg_parameter, arg_aliases, text_vars, tasks>>

\* A second call of find_competency_score, on the same single score under a
\* decorated competency name; the first call is kept.
FindScoreAgain ==
    /\ entry = "find_competency_score"
    /\ pc = "done"
    /\ previous = None
    /\ Len(normalization_result) = 1
    /\ \E name \in Decorations(normalization_result[1].name) :
        \E decorated \in {[normalization_result EXCEPT ![1].name = name]} :
            /\ normalization_result' = decorated
            /\ matched_score' = find_competency_score(decorated, arg_parameter,
                                                      arg_aliases)
    /\ previous' = Some([normalization_result |-> normalization_result,
                         matched_score |-> matched_score])
    /\ UNCHANGED <<entry, pc, scores, employee, override_score, normalization_scale,
                   position_type, perilaku, kualitas, has_performance_data, leadership,
                   total_score, rating, report_vars, arg_parameter, arg_aliases,
                   text_vars, tasks>>

\* normalize_text, report.rs:480-489
NormalizeText ==
    /\ entry = "normalize_text"
    /\ pc = "call"
    /\ output_text' = normalize_text(input_text)
    /\ pc' = "done"
    /\ UNCHANGED <<entry, scores, employee, override_score, normalization_result,
                   normalization_scale, position_type, perilaku, kualitas,
                   has_performance_data, leadership, total_score, rating, previous,
                   report_vars, matcher_vars, input_text, tasks>>

\* normalize_text applied to its own result; the first call is kept.
NormalizeTextAgain ==
    /\ entry = "normalize_text"
    /\ pc = "done"
    /\ previous = None
    /\ input_text' = output_text
    /\ output_text' = normalize_text(output_text)
    /\ previous' = Some([input_text |-> input_text, output_text |-> output_text])
    /\ UNCHANGED <<entry, pc, scores, employee, override_score, normalization_result,
                   normalization_scale, position_type, perilaku, kualitas,
                   has_performance_data, leadership, total_score, rating,
                   report_vars, matcher_vars, tasks>>

ExtractEmployeeName ==
    /\ entry = "extract_employee_name"
    /\ pc = "call"
    /\ output_text' = extract_employee_name(input_text)
    /\ pc' = "done"
    /\ UNCHANGED <<entry, scores, employee, override_score, normalization_result,
                   normalization_scale, position_type, perilaku, kualitas,
                   has_performance_data, leadership, total_score, rating, previous,
                   report_vars, matcher_vars, input_text, tasks>>

DetectDelimiter ==
    /\ entry = "detect_delimiter"
    /\ pc = "call"
    /\ output_text' = detect_delimiter(input_text)
    /\ pc' = "done"
    /\ UNCHANGED <<entry, scores, employee, override_score, normalization_result,
                   normalization_scale, position_type, perilaku, kualitas,
                   has_performance_data, leadership, total_score, rating, previous,
                   report_vars, matcher_vars, input_text, tasks>>

CleanField ==
    /\ entry = "clean_field"
    /\ pc = "call"
    /\ output_text' = clean_field(input_text)
    /\ pc' = "done"
    /\ UNCHANGED <<entry, scores, employee, override_score, normalization_result,
                   normalization_scale, position_type, perilaku, kualitas,
                   has_performance_data, leadership, total_score, rating, previous,
                   report_vars, matcher_vars, input_text, tasks>>

\* clean_field applied to its own result; the first call is kept.
CleanFieldAgain ==
    /\ entry = "clean_field"
    /\ pc = "done"
    /\ previous = None
    /\ input_text' = output_text
    /\ output_text' = clean_field(output_text)
    /\ previous' = Some([input_text |-> input_text, output_text |-> output_text])
    /\ UNCHANGED <<entry, pc, scores, employee, override_score, normalization_result,
                   normalization_scale, position_type, perilaku, kualitas,
                   has_performance_data, leadership, total_score, rating,
                   report_vars, matcher_vars, tasks>>

\* One row of list_employees; the status goes to output_text.
ListEmployees ==
    /\ entry = "list_employees"
    /\ pc = "call"
    /\ output_text' = position_status_of(employee)
    /\ pc' = "done"
    /\ UNCHANGED <<entry, scores, employee, override_score, normalization_result,
                   normalization_scale, position_type, perilaku, kualitas,
                   has_performance_data, leadership, total_score, rating, previous,
                   report_vars, matcher_vars, input_text, tasks>>

\* Longest score list, outside the sheets, of an employee whose score is
\* imported again.
MaxRaised == 2

\* Cell texts on the four-point scale, before a score is imported again.
LowCells == {<<"0">>, <<"3", ",", "5">>, <<"4">>}

\* Cell texts of the scores that are imported again, on both sides of the
\* thresholds of determine_scale.
RaisedCells == {<<"4">>, <<"1", "0", "0">>, <<"2", "0", "0">>}

RaisedLists ==
    Sheets \cup SeqsUpTo({Row(n, c, None) : n \in RubricNames, c \in LowCells}, MaxRaised)

\* import_performance_into_dataset stores a higher value for one score the
\* employee already has (the upsert of import.rs:564-582), after a report was
\* built; the report is then requested again.  The employees drawn are those
\* of the sheet with the scores of RaisedLists.
ImportRaisedScore ==
    /\ entry = "build_report_context"
    /\ pc = "done"
    /\ previous = None
    /\ scores \in RaisedLists
    /\ employee \in SheetEmployees
    /\ \E i \in 1..Len(scores), c \in RaisedCells :
        \E raised \in {Row(scores[i].name, c, None)} :
            /\ FGt(parse_numeric_score(raised), parse_numeric_score(scores[i]))
            /\ scores' = [scores EXCEPT ![i] = raised]
    /\ previous' = Some([scores |-> scores,
                         normalization_scale |-> normalization_scale,
                         total_score |-> total_score,
                         rating |-> rating])
    /\ pc' = "call"
    /\ UNCHANGED <<entry, employee, override_score, normalization_result,
                   normalization_scale, position_type, perilaku, kualitas,
                   has_performance_data, leadership, total_score, rating,
                   report_vars, matcher_vars, text_vars, tasks>>

Next ==
    \/ BuildReport
    \/ ImportRaisedScore
    \/ Normalize
    \/ ComputeLeadership
    \/ CalculateTotal
    \/ Rate
    \/ RateAgain
    \/ Classify
    \/ ClassifyAgain
    \/ FindScore
    \/ FindScoreAgain
    \/ NormalizeText
    \/ NormalizeTextAgain
    \/ ExtractEmployeeName
    \/ DetectDelimiter
    \/ CleanField
    \/ CleanFieldAgain
    \/ ListEmployees

Spec == Init /\ [][Next]_vars

----------------------------------------------------------------------------
(* Properties *)

ReportDone == entry = "build_report_context" /\ pc = "done"

NormalizeDone == entry = "normalize_competencies" /\ pc = "done"

LeadershipDone == entry = "compute_leadership_score" /\ pc = "done"

TotalDone == entry = "calculate_total_score" /\ pc = "done"

RatingDone == entry = "get_performance_rating" /\ pc = "done"

\* min and clamp of the reals, written out with comparisons only.
MinOf(a, b) == IF FLe(a, b) THEN a ELSE b

ClampTo(x, lo, hi) == IF FLt(x, lo) THEN lo ELSE IF FLt(hi, x) THEN hi ELSE x

InRange(x, lo, hi) == FLe(lo, x) /\ FLe(x, hi)

LeadershipContribution ==
    IF position_type = Eselon /\ IsSome(leadership)
    THEN Unwrap(leadership).weighted_score
    ELSE R(0)

\* C1: the total score of every report (and of every direct call of
\* calculate_total_score) is min(behavioral subtotal + quality subtotal + L, 85),
\* L being the leadership weighted score for an Eselon with a leadership result
\* and 0 otherwise.
C1_TotalIsCappedSum ==
    (ReportDone \/ TotalDone) =>
        total_score = MinOf(FAdd(FAdd(perilaku.subtotal, kualitas.subtotal),
                                 LeadershipContribution),
                            R(85))

\* An Eselon report with leadership applied: 5 + 25.5 + 13.6 = 44.1.
C1_Witness ==
    /\ ReportDone
    /\ position_type = Eselon
    /\ IsSome(leadership)
    /\ Unwrap(leadership).weighted_score = Frac(68, 5)
    /\ perilaku.subtotal = R(5)
    /\ kualitas.subtotal = Frac(51, 2)
    /\ total_score = Frac(441, 10)

\* C2: for every input the total score lies in [0, 85].
C2_TotalInRange ==
    (ReportDone \/ TotalDone) => InRange(total_score, R(0), R(85))

\* A Staff report whose sections are both at their maximum: 25.5 + 59.5 = 85.
C2_Witness ==
    /\ ReportDone
    /\ position_type = Staff
    /\ Len(scores) = Len(SheetNames)
    /\ total_score = R(85)

RatingLabels == <<"Perlu Pembinaan", "Kurang Baik", "Baik", "Sangat Baik">>

RankOf(label) == CHOOSE i \in 1..Len(RatingLabels) : RatingLabels[i] = label

\* C3: the rating is "Sangat Baik" from 80, "Baik" on [70, 80), "Kurang Baik" on
\* [60, 70) and "Perlu Pembinaan" below 60; every total gets exactly one label, and
\* of two totals the higher never gets the lower-ranked label.
C3_RatingBands ==
    (ReportDone \/ RatingDone) =>
        /\ rating \in Range(RatingLabels)
        /\ (rating = "Sangat Baik") <=> FGe(total_score, R(80))
        /\ (rating = "Baik") <=> (FGe(total_score, R(70)) /\ FLt(total_score, R(80)))
        /\ (rating = "Kurang Baik") <=> (FGe(total_score, R(60)) /\ FLt(total_score, R(70)))
        /\ (rating = "Perlu Pembinaan") <=> FLt(total_score, R(60))
        /\ IsSome(previous) =>
            (FLe(Unwrap(previous).total_score, total_score)
                => RankOf(Unwrap(previous).rating) <= RankOf(rating))

\* 59.99 was rated "Perlu Pembinaan" and then exactly 60 is rated "Kurang Baik".
C3_Witness ==
    /\ RatingDone
    /\ previous = Some([total_score |-> Frac(5999, 100), rating |-> "Perlu Pembinaan"])
    /\ total_score = R(60)
    /\ rating = "Kurang Baik"

AllPerilakuAt100 ==
    /\ Len(perilaku.breakdown) = 5
    /\ \A p \in 1..5 : perilaku.breakdown[p].raw_score = R(100)

\* C4: the behavioral subtotal never exceeds 25.5 and the quality subtotal never
\* exceeds 42.5 for Eselon and 70 for Staff; with all five behavioral parameters
\* matched at 100 the behavioral subtotal is exactly 25.5.
C4_SectionCaps ==
    ReportDone =>
        /\ FLe(perilaku.subtotal, Frac(51, 2))
        /\ FLe(kualitas.subtotal, IF position_type = Eselon THEN Frac(85, 2) ELSE R(70))
        /\ AllPerilakuAt100 => perilaku.subtotal = Frac(51, 2)

\* All five behavioral parameters matched at 100: the weighted sum 30 is cut to 25.5.
C4_Witness ==
    /\ ReportDone
    /\ AllPerilakuAt100
    /\ FSum(WeightedScores(perilaku.breakdown)) = R(30)
    /\ perilaku.subtotal = Frac(51, 2)

PerilakuWeights == <<R(5), R(5), R(5), R(5), R(10)>>

KualitasWeights ==
    IF position_type = Eselon
    THEN <<Frac(51, 2), Frac(17, 2), Frac(17, 2)>>
    ELSE <<Frac(85, 2), Frac(17, 2), Frac(17, 2)>>

\* The components of a section follow the rubric rows: name, weight, and
\* weighted score * 100 = matched score * weight with the matched score in [0, 100].
ComponentsFollow(breakdown, params, weights) ==
    /\ Len(breakdown) = Len(params)
    /\ \A p \in 1..Len(params) :
        /\ breakdown[p].parameter = params[p].parameter
        /\ breakdown[p].weight_percentage = weights[p]
        /\ InRange(breakdown[p].raw_score, R(0), R(100))
        /\ FMul(breakdown[p].weighted_score, R(100))
               = FMul(breakdown[p].raw_score, weights[p])

\* C5: each section has one component per rubric parameter, in rubric order, with
\* weighted score = matched score * weight / 100, weights 5, 5, 5, 5, 10 for the
\* behavioral section and 25.5/8.5/8.5 (Eselon) or 42.5/8.5/8.5 (Staff) for the
\* quality section; the subtotal is min(sum of the weighted scores, section cap).
C5_SectionComponents ==
    ReportDone =>
        /\ ComponentsFollow(perilaku.breakdown, PERILAKU_PARAMS, PerilakuWeights)
        /\ ComponentsFollow(kualitas.breakdown, KUALITAS_PARAMS, KualitasWeights)
        /\ perilaku.subtotal
               = MinOf(FSum(WeightedScores(perilaku.breakdown)), Frac(51, 2))
        /\ kualitas.subtotal
               = MinOf(FSum(WeightedScores(kualitas.breakdown)),
                       IF position_type = Eselon THEN Frac(85, 2) ELSE R(70))

\* A Staff report with quality of work matched at 50: 50 * 42.5 / 100 = 21.25.
C5_Witness ==
    /\ ReportDone
    /\ position_type = Staff
    /\ kualitas.breakdown[1].raw_score = R(50)
    /\ kualitas.breakdown[1].weighted_score = Frac(85, 4)
    /\ perilaku.breakdown[5].weighted_score = R(10)

\* C6: a Staff employee has no leadership result, whatever the scores and the
\* override, and the total score is the capped sum of the two sections alone.
C6_StaffNoLeadership ==
    /\ (ReportDone \/ LeadershipDone) /\ position_type = Staff => leadership = None
    /\ (ReportDone \/ TotalDone) /\ position_type = Staff =>
            total_score = MinOf(FAdd(perilaku.subtotal, kualitas.subtotal), R(85))

\* compute_leadership_score for Staff with performance data and an override of 100.
C6_Witness ==
    /\ LeadershipDone
    /\ position_type = Staff
    /\ has_performance_data
    /\ override_score = Some(R(100))
    /\ leadership = None

HasPerformanceData ==
    /\ Len(normalization_result) >= 1
    /\ FGt(perilaku.subtotal, R(0)) \/ FGt(kualitas.subtotal, R(0))

\* C7: an Eselon employee always has a leadership result; it is applied exactly
\* when there is at least one normalized score and a section subtotal above 0,
\* and otherwise it is withheld with raw score 0 and weighted score 0.
C7_EselonLeadership ==
    /\ (ReportDone \/ LeadershipDone) /\ position_type = Eselon =>
            /\ IsSome(leadership)
            /\ ~Unwrap(leadership).applied =>
                    /\ Unwrap(leadership).raw_score = R(0)
                    /\ Unwrap(leadership).weighted_score = R(0)
    /\ ReportDone /\ position_type = Eselon =>
            (Unwrap(leadership).applied <=> HasPerformanceData)
    /\ LeadershipDone /\ position_type = Eselon =>
            (Unwrap(leadership).applied <=> has_performance_data)

\* An Eselon report with scores, none of which gives a section a positive subtotal.
C7_Witness ==
    /\ ReportDone
    /\ position_type = Eselon
    /\ Len(normalization_result) >= 1
    /\ perilaku.subtotal = R(0)
    /\ kualitas.subtotal = R(0)
    /\ leadership = Some([raw_score |-> R(0), weighted_score |-> R(0), applied |-> FALSE])

LeadershipApplied ==
    /\ ReportDone \/ LeadershipDone
    /\ IsSome(leadership)
    /\ Unwrap(leadership).applied

\* C8 as stated: an applied leadership score has raw score = the override clamped
\* to [0, 100] (80 without an override) and weighted score = raw * 0.17 <= 17.
C8_OverrideClamped ==
    LeadershipApplied =>
        /\ Unwrap(leadership).raw_score
               = (IF IsSome(override_score)
                  THEN ClampTo(Unwrap(override_score), R(0), R(100))
                  ELSE R(80))
        /\ Unwrap(leadership).weighted_score
               = FMul(Unwrap(leadership).raw_score, Frac(17, 100))
        /\ FLe(Unwrap(leadership).weighted_score, R(17))

\* C8 amended: as C8, a non-finite override (NaN, +inf, -inf) counting as 0.
C8_OverrideClampedFinite ==
    LeadershipApplied =>
        /\ Unwrap(leadership).raw_score
               = (IF ~IsSome(override_score) THEN R(80)
                  ELSE IF ~is_finite(Unwrap(override_score)) THEN R(0)
                  ELSE ClampTo(Unwrap(override_score), R(0), R(100)))
        /\ Unwrap(leadership).weighted_score
               = FMul(Unwrap(leadership).raw_score, Frac(17, 100))
        /\ FLe(Unwrap(leadership).weighted_score, R(17))
        /\ ~IsSome(override_score) => Unwrap(leadership).weighted_score = Frac(68, 5)

\* An override of 120 is applied as 100, weighted 17.
C8_Witness ==
    /\ LeadershipDone
    /\ override_score = Some(R(120))
    /\ leadership = Some([raw_score |-> R(100), weighted_score |-> R(17), applied |-> TRUE])

OriginalValues == [i \in 1..Len(normalization_result) |-> normalization_result[i].original_score]

\* The largest raw value, floored at 0 (NaN is not comparable and takes no part).
MaxRaw ==
    CHOOSE m \in {R(0)} \cup (Range(OriginalValues) \ {NaN}) :
        /\ FLe(R(0), m)
        /\ \A v \in Range(OriginalValues) \ {NaN} : FLe(v, m)

ExpectedScale ==
    IF FLe(MaxRaw, R(0)) THEN R(100)
    ELSE IF FLe(MaxRaw, R(5)) THEN R(4)
    ELSE IF FLe(MaxRaw, R(10)) THEN R(10)
    ELSE IF FLe(MaxRaw, R(20)) THEN R(20)
    ELSE IF FLe(MaxRaw, R(100)) THEN R(100)
    ELSE MaxRaw

\* C9: the scale is 100 for max <= 0, 4 for 0 < max <= 5, 10 for 5 < max <= 10,
\* 20 for 10 < max <= 20, 100 for 20 < max <= 100 and max above 100, max being the
\* largest raw value floored at 0; every finite score of the employee is
\* normalized with this one scale.
C9_ScaleThresholds ==
    (ReportDone \/ NormalizeDone) =>
        /\ normalization_scale = ExpectedScale
        /\ \A i \in 1..Len(normalization_result) :
                (is_finite(normalization_result[i].original_score)
                 /\ is_finite(normalization_scale)) =>
                    normalization_result[i].raw_score
                        = ClampTo(FMul(FDiv(normalization_result[i].original_score,
                                            normalization_scale), R(100)),
                                  R(0), R(100))

\* The largest raw value is exactly 5: the scale is 4, and 5 normalizes to 100,
\* 0.5 to 12.5.
C9_Witness ==
    /\ NormalizeDone
    /\ Len(normalization_result) = 2
    /\ normalization_result[1].original_score = R(5)
    /\ normalization_result[2].original_score = Frac(1, 2)
    /\ normalization_scale = R(4)
    /\ normalization_result[1].raw_score = R(100)
    /\ normalization_result[2].raw_score = Frac(25, 2)

\* C10: the normalized list is parallel to the input (length, order, names) and
\* every normalized value is clamp(raw / scale * 100, 0, 100), hence in [0, 100].
C10_NormalizedInRange ==
    (ReportDone \/ NormalizeDone) =>
        /\ Len(normalization_result) = Len(scores)
        /\ \A i \in 1..Len(normalization_result) :
            /\ normalization_result[i].name = scores[i].name
            /\ normalization_result[i].raw_score
                   = f64_clamp(FMul(FDiv(normalization_result[i].original_score,
                                         normalization_scale), R(100)),
                               R(0), R(100))
            /\ InRange(normalization_result[i].raw_score, R(0), R(100))

----------------------------------------------------------------------------
(* Properties of non-finite input and of the four-point scale *)

Zeroed(v) == IF is_finite(v) THEN v ELSE R(0)

\* The raw values with every non-finite one replaced by 0.
ZeroedValues == [i \in 1..Len(OriginalValues) |-> Zeroed(OriginalValues[i])]

\* The scale of section 4.1 for a list of finite values.
ScaleFor(values) ==
    LET m == CHOOSE x \in {R(0)} \cup Range(values) :
                 FLe(R(0), x) /\ \A v \in Range(values) : FLe(v, x)
    IN  IF FLe(m, R(0)) THEN R(100)
        ELSE IF FLe(m, R(5)) THEN R(4)
        ELSE IF FLe(m, R(10)) THEN R(10)
        ELSE IF FLe(m, R(20)) THEN R(20)
        ELSE IF FLe(m, R(100)) THEN R(100)
        ELSE m

\* C11: a non-finite raw score counts as 0 before any arithmetic: the scale and
\* every normalized value are those of the list with each non-finite raw value
\* replaced by 0, so the non-finite score itself normalizes to 0.
C11_NonFiniteIsZero ==
    (ReportDone \/ NormalizeDone) =>
        /\ normalization_scale = ScaleFor(ZeroedValues)
        /\ \A i \in 1..Len(normalization_result) :
                normalization_result[i].raw_score
                    = ClampTo(FMul(FDiv(ZeroedValues[i], ScaleFor(ZeroedValues)), R(100)),
                              R(0), R(100))

AllLikert ==
    /\ Len(normalization_result) >= 1
    /\ \A i \in 1..Len(normalization_result) :
            normalization_result[i].original_score \in {R(0), R(1), R(2), R(3), R(4)}

\* C12 as stated: raw scores all in {0, 1, 2, 3, 4} give scale 4 and normalized
\* values in [0, 100], a raw 4 normalizing to 100.
C12_LikertScaleFour ==
    ((ReportDone \/ NormalizeDone) /\ AllLikert) =>
        /\ normalization_scale = R(4)
        /\ \A i \in 1..Len(normalization_result) :
            /\ InRange(normalization_result[i].raw_score, R(0), R(100))
            /\ normalization_result[i].original_score = R(4)
                    => normalization_result[i].raw_score = R(100)

\* C12 amended: raw scores all in {0, 1, 2, 3, 4} with at least one above 0 give
\* scale 4 and normalized value raw * 25; when every raw score is 0 the scale is
\* 100 and every normalized value is 0.
C12_LikertScaleFourPositive ==
    ((ReportDone \/ NormalizeDone) /\ AllLikert) =>
        IF \E i \in 1..Len(normalization_result) :
                FGt(normalization_result[i].original_score, R(0))
        THEN /\ normalization_scale = R(4)
             /\ \A i \in 1..Len(normalization_result) :
                    normalization_result[i].raw_score
                        = FMul(normalization_result[i].original_score, R(25))
        ELSE /\ normalization_scale = R(100)
             /\ \A i \in 1..Len(normalization_result) :
                    normalization_result[i].raw_score = R(0)

\* Raw scores 4 and 3 on a four-point sheet: scale 4, normalized 100 and 75.
C12_Witness ==
    /\ NormalizeDone
    /\ Len(normalization_result) = 2
    /\ normalization_result[1].original_score = R(4)
    /\ normalization_result[2].original_score = R(3)
    /\ normalization_scale = R(4)
    /\ normalization_result[1].raw_score = R(100)
    /\ normalization_result[2].raw_score = R(75)

----------------------------------------------------------------------------
(* Properties of the position classifier *)

PositionDone == entry = "determine_position_type" /\ pc = "done"

\* jabatan and sub_jabatan together, lowercased letters and whitespace only.
RoleText(emp) == normalize_text(OptStr(emp.jabatan) \o <<" ">> \o OptStr(emp.sub_jabatan))

HasKeyword(emp, keywords) ==
    \E text \in {RoleText(emp)} :
        \E k \in 1..Len(keywords) : contains(text, keywords[k])

\* C13: a role text with a staff keyword and an Eselon keyword is Staff; a role
\* text with an Eselon keyword and no staff keyword is Eselon, whatever the grade.
C13_StaffKeywordFirst ==
    (PositionDone \/ ReportDone) =>
        /\ (HasKeyword(employee, STAFF_KEYWORDS) /\ HasKeyword(employee, ESELON_KEYWORDS))
                => position_type = Staff
        /\ (HasKeyword(employee, ESELON_KEYWORDS) /\ ~HasKeyword(employee, STAFF_KEYWORDS))
                => position_type = Eselon

\* "Staff Administrasi" in "Sub Bagian Umum" with grade IV/b: both keyword lists
\* match and the grade says Eselon, the result is Staff.
C13_Witness ==
    /\ PositionDone
    /\ employee = Emp(Some(<<"S", "t", "a", "f", "f", " ", "A", "d", "m", "i", "n", "i", "s", "t", "r", "a", "s", "i">>), Some(<<"S", "u", "b", " ", "B", "a", "g", "i", "a", "n", " ", "U", "m", "u", "m">>), Some(<<"I", "V", "/", "b">>))
    /\ position_type = Staff

NoKeyword(emp) ==
    ~HasKeyword(emp, STAFF_KEYWORDS) /\ ~HasKeyword(emp, ESELON_KEYWORDS)

StartsWithIV(g) == Len(g) >= 2 /\ g[1] \in {"I", "i"} /\ g[2] \in {"V", "v"}

\* g from its first character that is not whitespace.
SkipWhitespace(g) ==
    IF \A i \in 1..Len(g) : is_whitespace(g[i]) THEN <<>>
    ELSE SubSeq(g, CHOOSE i \in 1..Len(g) :
                        ~is_whitespace(g[i]) /\ \A j \in 1..(i - 1) : is_whitespace(g[j]),
                Len(g))

\* C14 as stated: without a keyword in the role text the position is Eselon
\* exactly when the grade code starts with "IV" in any letter case.
C14_GradeFallback ==
    ((PositionDone \/ ReportDone) /\ NoKeyword(employee)) =>
        (position_type = Eselon
            <=> (IsSome(employee.gol) /\ StartsWithIV(Unwrap(employee.gol))))

\* C14 amended: as C14, for the grade code without its leading whitespace.
C14_GradeFallbackTrimmed ==
    ((PositionDone \/ ReportDone) /\ NoKeyword(employee)) =>
        (position_type = Eselon
            <=> (IsSome(employee.gol)
                 /\ StartsWithIV(SkipWhitespace(Unwrap(employee.gol)))))

\* No role text at all and the grade "iv/a": Eselon.
C14_Witness ==
    /\ PositionDone
    /\ employee = Emp(None, None, Some(<<"i", "v", "/", "a">>))
    /\ position_type = Eselon

RECURSIVE SplitWords(_, _)
SplitWords(s, word) ==
    LET done == IF word = <<>> THEN <<>> ELSE <<word>>
    IN  IF s = <<>> THEN done
        ELSE IF is_whitespace(Head(s)) THEN done \o SplitWords(Tail(s), <<>>)
        ELSE SplitWords(Tail(s), Append(word, Head(s)))

\* The words of jabatan and sub_jabatan together.
RoleWords(emp) == SplitWords(OptStr(emp.jabatan) \o <<" ">> \o OptStr(emp.sub_jabatan), <<>>)

\* C15: two role texts with the same words, differing only in the whitespace
\* between them, get the same position (the grade code being the same).
C15_WhitespaceInsensitive ==
    (PositionDone /\ IsSome(previous)) =>
        (RoleWords(Unwrap(previous).employee) = RoleWords(employee)
            => Unwrap(previous).position_type = position_type)

----------------------------------------------------------------------------
(* Properties of the alias matcher *)

FindDone == entry = "find_competency_score" /\ pc = "done"

TextDone == entry = "normalize_text" /\ pc = "done"

\* The normalized canonical name and aliases, as a set: their order plays no part.
TargetSet ==
    {normalize_text(arg_parameter)}
    \cup {normalize_text(arg_aliases[a]) : a \in 1..Len(arg_aliases)}

\* The scores whose normalized name contains a target.
Hits ==
    {i \in 1..Len(normalization_result) :
        \E t \in TargetSet : contains(normalize_text(normalization_result[i].name), t)}

\* C16: find_competency_score returns 0 when no score matches (or there is none),
\* and else the value of the first matching score in score order, clamped to
\* [0, 100]; which alias matches, and in which order the aliases are listed,
\* plays no part.
C16_FirstMatchInScoreOrder ==
    FindDone =>
        IF Hits = {} THEN matched_score = R(0)
        ELSE LET first == CHOOSE i \in Hits : \A j \in Hits : i <= j
                 v == normalization_result[first].raw_score
             IN  /\ InRange(matched_score, R(0), R(100))
                 /\ is_finite(v) => matched_score = ClampTo(v, R(0), R(100))

\* "Absensi" at 30 precedes "Kehadiran" at 150, the alias kehadiran precedes the
\* alias absensi: the result is 30, the first score.
C16_Witness ==
    /\ FindDone
    /\ previous = None
    /\ normalization_result = <<CompetencyScore(<<"A", "b", "s", "e", "n", "s", "i">>, R(30)),
                                CompetencyScore(<<"K", "e", "h", "a", "d", "i", "r", "a", "n">>, R(150))>>
    /\ arg_aliases = <<<<"k", "e", "h", "a", "d", "i", "r", "a", "n">>, <<"a", "b", "s", "e", "n", "s", "i">>>>
    /\ matched_score = R(30)

\* C17: normalize_text applied to its own result returns it unchanged, and a
\* score that matched (with a value above 0) still matches, with the same
\* value, once its name is numbered, qualified or given punctuation and digits.
C17_StableMatching ==
    /\ (TextDone /\ IsSome(previous)) => output_text = Unwrap(previous).output_text
    /\ (FindDone /\ IsSome(previous)) =>
            (Unwrap(previous).matched_score # R(0)
                => matched_score = Unwrap(previous).matched_score)

\* "Kehadiran" at 60 matched, and matches again as "Ke-hadiran2".
C17_Witness ==
    /\ FindDone
    /\ IsSome(previous)
    /\ Unwrap(previous).normalization_result = <<CompetencyScore(<<"K", "e", "h", "a", "d", "i", "r", "a", "n">>, R(60))>>
    /\ Unwrap(previous).matched_score = R(60)
    /\ normalization_result = <<CompetencyScore(<<"K", "e", "-", "h", "a", "d", "i", "r", "a", "n", "2">>, R(60))>>
    /\ matched_score = R(60)

----------------------------------------------------------------------------
(* Properties of the report as a whole *)

ReportCalled == entry = "build_report_context" /\ pc # "call"

\* C18: build_report_context returns a report for every input, and for no
\* scores, no role text and no grade code the report has position Staff, both
\* subtotals 0, no leadership result, total 0 and rating "Perlu Pembinaan".
C18_NeverFails ==
    ReportCalled =>
        /\ pc = "done"
        /\ (scores = <<>> /\ employee = NoEmployee) =>
                /\ position_type = Staff
                /\ perilaku.subtotal = R(0)
                /\ kualitas.subtotal = R(0)
                /\ leadership = None
                /\ total_score = R(0)
                /\ rating = "Perlu Pembinaan"

\* C19: every component of every section of a report has
\* weighted_score = raw_score * weight_percentage / 100.
C19_ComponentWeights ==
    ReportDone =>
        \A s \in 1..Len(component_sections) :
            \A c \in 1..Len(component_sections[s].breakdown) :
                component_sections[s].breakdown[c].weighted_score
                    = FDiv(FMul(component_sections[s].breakdown[c].raw_score,
                                component_sections[s].breakdown[c].weight_percentage),
                           R(100))

----------------------------------------------------------------------------
(* Report computations side by side: export_employee_report_pdf is an async
   command, report.rs:177-198, and each request calls build_report_context on
   the performance it loaded itself. *)

\* Number of report computations that run side by side.
NumTasks == 2

TaskIds == 1..NumTasks

ParallelScores == {
    <<>>,
    <<Row(<<"K", "u", "a", "l", "i", "t", "a", "s", " ", "K", "i", "n", "e", "r", "j", "a">>, <<"5", "0">>, None)>>,
    <<Row(<<"1", ".", " ", "K", "e", "h", "a", "d", "i", "r", "a", "n">>, <<"4">>, None), Row(<<"K", "u", "a", "l", "i", "t", "a", "s", " ", "K", "i", "n", "e", "r", "j", "a">>, <<"3", ",", "5">>, None)>> }

ParallelEmployees == {
    Emp(Some(<<"K", "e", "p", "a", "l", "a", " ", "S", "e", "k", "s", "i", " ", "U", "m", "u", "m">>), None, Some(<<"I", "I", "I", "/", "a">>)),
    Emp(Some(<<"P", "r", "a", "n", "a", "t", "a", " ", "K", "o", "m", "p", "u", "t", "e", "r">>), Some(<<"P", "e", "l", "a", "k", "s", "a", "n", "a">>), Some(<<"I", "I", "I", "/", "a">>)) }

\* The frame of one call of build_report_context: its argument and its locals.
NewTask(rows, emp) ==
    [at |-> "normalize",
     scores |-> rows,
     employee |-> emp,
     normalization_result |-> <<>>,
     normalization_scale |-> R(0),
     position_type |-> Staff,
     perilaku |-> EmptyResult,
     kualitas |-> EmptyResult,
     has_performance_data |-> FALSE,
     leadership |-> None,
     total_score |-> R(0),
     rating |-> "",
     component_sections |-> <<>>,
     competencies |-> <<>>]

\* A call reads the frame of another call.
frame_of_first(frames, self) == frames[1]

\* The frame a call reads and writes: its own.
frame(frames, self) == frames[self]

sequential_vars ==
    <<entry, pc, scores, employee, override_score, normalization_result,
      normalization_scale, position_type, perilaku, kualitas, has_performance_data,
      leadership, total_score, rating, previous, report_vars, matcher_vars, text_vars>>

ParallelInit ==
    /\ entry = "export_employee_report_pdf"
    /\ Defaults
    /\ NoInputs
    /\ NoEngine
    /\ normalization_result = <<>>
    /\ normalization_scale = R(0)
    /\ rating = ""
    /\ NoReport
    /\ NoMatcher
    /\ NoText
    /\ tasks \in [TaskIds -> {NewTask(rows, emp) : rows \in ParallelScores,
                                                   emp \in ParallelEmployees}]

\* report.rs:204
TaskNormalize(self) ==
    /\ tasks[self].at = "normalize"
    /\ \E f \in {frame(tasks, self)} :
        \E normalized_pair \in {normalize_competencies(f.scores)} :
            tasks' = [tasks EXCEPT ![self] =
                        [f EXCEPT !.at = "position",
                                  !.normalization_result = normalized_pair[1],
                                  !.normalization_scale = normalized_pair[2]]]
    /\ UNCHANGED sequential_vars

\* report.rs:205
TaskPosition(self) ==
    /\ tasks[self].at = "position"
    /\ \E f \in {frame(tasks, self)} :
        tasks' = [tasks EXCEPT ![self] =
                    [f EXCEPT !.at = "perilaku",
                              !.position_type = determine_position_type(f.employee)]]
    /\ UNCHANGED sequential_vars

\* report.rs:207
TaskPerilaku(self) ==
    /\ tasks[self].at = "perilaku"
    /\ \E f \in {frame(tasks, self)} :
        tasks' = [tasks EXCEPT ![self] =
                    [f EXCEPT !.at = "kualitas",
                              !.perilaku = calculate_perilaku_kinerja(f.normalization_result)]]
    /\ UNCHANGED sequential_vars

\* report.rs:208
TaskKualitas(self) ==
    /\ tasks[self].at = "kualitas"
    /\ \E f \in {frame(tasks, self)} :
        tasks' = [tasks EXCEPT ![self] =
                    [f EXCEPT !.at = "leadership",
                              !.kualitas = calculate_kualitas_kerja(f.normalization_result,
                                                                    f.position_type)]]
    /\ UNCHANGED sequential_vars

\* report.rs:209-211
TaskLeadership(self) ==
    /\ tasks[self].at = "leadership"
    /\ \E f \in {frame(tasks, self)} :
        \E has_data \in {f.normalization_result # <<>>
                          /\ (FGt(f.perilaku.subtotal, R(0))
                              \/ FGt(f.kualitas.subtotal, R(0)))} :
            tasks' = [tasks EXCEPT ![self] =
                        [f EXCEPT !.at = "total",
                                  !.has_performance_data = has_data,
                                  !.leadership =
                                      compute_leadership_score(f.position_type, has_data,
                                                               None)]]
    /\ UNCHANGED sequential_vars

\* report.rs:212-214
TaskTotal(self) ==
    /\ tasks[self].at = "total"
    /\ \E f \in {frame(tasks, self)} :
        \E total \in {calculate_total_score(f.position_type, f.perilaku, f.kualitas,
                                            f.leadership)} :
            tasks' = [tasks EXCEPT ![self] =
                        [f EXCEPT !.at = "sections",
                                  !.total_score = total,
                                  !.rating = get_performance_rating(total)]]
    /\ UNCHANGED sequential_vars

\* report.rs:216-282
TaskSections(self) ==
    /\ tasks[self].at = "sections"
    /\ \E f \in {frame(tasks, self)} :
        \E sorted \in sort_by(zip_competencies(f.scores, f.normalization_result)) :
            tasks' = [tasks EXCEPT ![self] =
                        IF IsSome(sorted)
                        THEN [f EXCEPT !.at = "done",
                                       !.component_sections =
                                           build_component_sections(f.position_type,
                                                                    f.perilaku, f.kualitas,
                                                                    f.leadership),
                                       !.competencies = Unwrap(sorted)]
                        ELSE [f EXCEPT !.at = "panicked"]]
    /\ UNCHANGED sequential_vars

ParallelNext ==
    \E self \in TaskIds :
        \/ TaskNormalize(self)
        \/ TaskPosition(self)
        \/ TaskPerilaku(self)
        \/ TaskKualitas(self)
        \/ TaskLeadership(self)
        \/ TaskTotal(self)
        \/ TaskSections(self)

ParallelSpec == ParallelInit /\ [][ParallelNext]_vars

\* The report of a call of build_report_context that runs alone.
ReportAlone(rows, emp) ==
    LET context == report_context(rows, emp)
    IN  {[at |-> "done",
          scores |-> rows,
          employee |-> emp,
          normalization_result |-> context.normalization_result,
          normalization_scale |-> context.normalization_scale,
          position_type |-> context.position_type,
          perilaku |-> context.perilaku,
          kualitas |-> context.kualitas,
          has_performance_data |-> context.has_performance_data,
          leadership |-> context.leadership,
          total_score |-> context.total_score,
          rating |-> context.rating,
          component_sections |-> context.component_sections,
          competencies |-> Unwrap(sorted)] :
            sorted \in {o \in sort_by(context.unsorted) : IsSome(o)}}

\* C20: whatever the interleaving, a report computation that has finished holds
\* exactly the report its own scores and employee give when computed alone.
C20_IndependentReports ==
    \A t \in TaskIds :
        tasks[t].at = "done" => tasks[t] \in ReportAlone(tasks[t].scores, tasks[t].employee)

\* Both computations have finished: an Eselon employee with two scores on the
\* four-point scale (5 + 22.3125 + 13.6) beside a Staff employee with one score
\* on the hundred-point scale (21.25).
C20_Witness ==
    /\ tasks[1].at = "done"
    /\ tasks[2].at = "done"
    /\ tasks[1].position_type = Eselon
    /\ tasks[2].position_type = Staff
    /\ tasks[1].total_score = Frac(3273, 80)
    /\ tasks[2].total_score = Frac(85, 4)

----------------------------------------------------------------------------
(* CsvParser helpers *)

ExtractDone == entry = "extract_employee_name" /\ pc = "done"

Positions(s, ch) == {i \in 1..Len(s) : s[i] = ch}

Least(S) == CHOOSE i \in S : \A j \in S : i <= j

Greatest(S) == CHOOSE i \in S : \A j \in S : j <= i

\* s without the whitespace at its two ends.
Trimmed(s) ==
    LET kept == {i \in 1..Len(s) : ~is_whitespace(s[i])}
    IN  IF kept = {} THEN <<>> ELSE SubSeq(s, Least(kept), Greatest(kept))

\* C21: extract_employee_name returns the trimmed text between the first '[' and
\* the first ']' when the '[' comes first, and None when a bracket is missing or
\* the first ']' comes before the first '['.
C21_BracketedName ==
    ExtractDone =>
        LET opens == Positions(input_text, "[")
            closes == Positions(input_text, "]")
        IN  IF opens # {} /\ closes # {} /\ Least(opens) < Least(closes)
            THEN output_text =
                    Some(Trimmed(SubSeq(input_text, Least(opens) + 1, Least(closes) - 1)))
            ELSE output_text = None

\* A header with text before the bracket, spaces inside it and a second pair of
\* brackets behind it.
C21_Witness ==
    /\ ExtractDone
    /\ input_text = <<"K", "e", "h", "a", "d", "i", "r", "a", "n", " ", "[", "nbsp", "B", "u", "d", "i", " ", "]", " ", "[", "x", "]">>
    /\ output_text = Some(<<"B", "u", "d", "i">>)

DelimiterDone == entry = "detect_delimiter" /\ pc = "done"

Candidates == <<",", "\t", ";", "|">>

\* How often ch occurs in content before its first line feed.
InFirstLine(content, ch) ==
    LET feeds == Positions(content, "\n")
        stop == IF feeds = {} THEN Len(content) + 1 ELSE Least(feeds)
    IN  Cardinality({i \in Positions(content, ch) : i < stop})

\* C22: detect_delimiter returns the candidate among comma, tab, semicolon and
\* pipe that occurs most often in the first line; on a tie the earliest of them
\* in that order, so comma when none occurs.
C22_MostFrequentDelimiter ==
    DelimiterDone =>
        \E k \in 1..Len(Candidates) :
            /\ output_text = Candidates[k]
            /\ \A j \in 1..Len(Candidates) :
                IF j < k
                THEN InFirstLine(input_text, Candidates[j]) < InFirstLine(input_text, Candidates[k])
                ELSE InFirstLine(input_text, Candidates[j]) <= InFirstLine(input_text, Candidates[k])

\* A tie in the first line between tab and semicolon, with more commas on the
\* second line: the tab wins.
C22_Witness ==
    /\ DelimiterDone
    /\ input_text = <<";", "\t", "\n">>
    /\ output_text = "\t"

CleanDone == entry = "clean_field" /\ pc = "done"

\* The maximal runs of s without whitespace, as pairs of first and last index.
Words(s) ==
    {w \in (1..Len(s)) \X (1..Len(s)) :
        /\ w[1] <= w[2]
        /\ \A i \in w[1]..w[2] : ~is_whitespace(s[i])
        /\ w[1] = 1 \/ is_whitespace(s[w[1] - 1])
        /\ w[2] = Len(s) \/ is_whitespace(s[w[2] + 1])}

\* t is s without the whitespace at its ends and with one space for every run
\* of whitespace inside.
IsCollapsed(t, s) ==
    LET words == Words(s)
        total == Cardinality(words)
        \* the word that starts at w is the n-th word
        rank(w) == Cardinality({v \in words : v[1] <= w[1]})
        \* where the word starts in t
        offset(w) == Cardinality({i \in 1..(w[1] - 1) : ~is_whitespace(s[i])}) + rank(w)
    IN  /\ Len(t) = Cardinality({i \in 1..Len(s) : ~is_whitespace(s[i])})
                    + (IF total = 0 THEN 0 ELSE total - 1)
        /\ \A w \in words :
            /\ \A i \in w[1]..w[2] : t[offset(w) + i - w[1]] = s[i]
            /\ rank(w) < total => t[offset(w) + w[2] - w[1] + 1] = " "

\* s without the double quotes at its two ends.
Unquoted(s) ==
    LET kept == {i \in 1..Len(s) : s[i] # Quote}
    IN  IF kept = {} THEN <<>> ELSE SubSeq(s, Least(kept), Greatest(kept))

\* C23: clean_field returns its input without the whitespace at its ends and
\* with one space for every run of whitespace inside, and clean_field of that
\* result is the result.
C23_CleanField ==
    CleanDone =>
        IF previous = None THEN IsCollapsed(output_text, input_text)
        ELSE output_text = input_text

\* C23 as the code has it: the double quotes around the trimmed input are
\* removed as well, and a second application changes nothing as long as the
\* result neither starts nor ends with a double quote.
C23_CleanFieldUnquoted ==
    CleanDone =>
        IF previous = None
        THEN IsCollapsed(output_text, Unquoted(Trimmed(input_text)))
        ELSE (input_text = <<>> \/ (Head(input_text) # Quote /\ input_text[Len(input_text)] # Quote))
                => output_text = input_text

\* A quoted field with a no-break space and a space between its two words and a
\* space behind the closing quote, cleaned twice.
C23_Witness ==
    /\ CleanDone
    /\ previous # None
    /\ Unwrap(previous).input_text =
        <<Quote, " ", "K", "u", "r", "a", "n", "g", "nbsp", " ", "B", "a", "i", "k", Quote, " ">>
    /\ input_text = <<"K", "u", "r", "a", "n", "g", " ", "B", "a", "i", "k">>
    /\ output_text = <<"K", "u", "r", "a", "n", "g", " ", "B", "a", "i", "k">>

----------------------------------------------------------------------------
(* The cover page *)

\* The number a band text gives in Indonesian notation, decimal comma.
BandNumber(text) == Unwrap(parse_f64(replace(text, ",", ".")))

\* The lowest total of a band: the number behind ">= ", or the number in front
\* of " - ".
BandLow(thr) ==
    IF starts_with(thr, <<">", "=", " ">>) THEN BandNumber(SubSeq(thr, 4, Len(thr)))
    ELSE BandNumber(SubSeq(thr, 1, find(thr, " ") - 1))

\* The first total above a band: none behind ">= ", else one hundredth above
\* the number behind " - " (totals are printed with two decimals).
BandEnd(thr) ==
    IF starts_with(thr, <<">", "=", " ">>) THEN None
    ELSE Some(FAdd(BandNumber(SubSeq(thr, Greatest(Positions(thr, " ")) + 1, Len(thr))),
                   Frac(1, 100)))

InBand(total, thr) ==
    /\ FGe(total, BandLow(thr))
    /\ IsSome(BandEnd(thr)) => FLt(total, Unwrap(BandEnd(thr)))

\* The rating as the conclusion line prints it, report.rs:761-765.
PrintedRating(label) ==
    to_uppercase(CASE label = "Sangat Baik" -> <<"S", "a", "n", "g", "a", "t", " ", "B", "a", "i", "k">>
                   [] label = "Baik" -> <<"B", "a", "i", "k">>
                   [] label = "Kurang Baik" -> <<"K", "u", "r", "a", "n", "g", " ", "B", "a", "i", "k">>
                   [] OTHER -> <<"P", "e", "r", "l", "u", " ", "P", "e", "m", "b", "i", "n", "a", "a", "n">>)

RatingKnown == (ReportDone \/ RatingDone) /\ ~is_nan(total_score)

\* C24: the rating of a total is the label of the band of the cover page the
\* total lies in: "Kurang Baik" exactly from 65.00 to 69.99, "Baik" from 70.00
\* to 79.99, "Sangat Baik" from 80.00.
C24_RatingBands ==
    RatingKnown =>
        \A b \in 1..Len(bands) :
            PrintedRating(rating) = bands[b][1] <=> InBand(total_score, bands[b][2])

----------------------------------------------------------------------------
(* parse_numeric_score *)

\* text is digits, at least one of them around at most one '.' or ','.
IsDecimal(text) ==
    LET seps == Positions(text, ".") \cup Positions(text, ",")
    IN  /\ Cardinality(seps) <= 1
        /\ \A i \in 1..Len(text) : i \in seps \/ text[i] \in AsciiDigitSet
        /\ Len(text) > Cardinality(seps)

Unsigned(text) == IF text # <<>> /\ text[1] \in {"+", "-"} THEN Tail(text) ELSE text

ExponentAt(text) == Positions(text, "e") \cup Positions(text, "E")

Mantissa(text) ==
    IF ExponentAt(text) = {} THEN text ELSE SubSeq(text, 1, Least(ExponentAt(text)) - 1)

Exponent(text) ==
    IF ExponentAt(text) = {} THEN <<>>
    ELSE SubSeq(text, Least(ExponentAt(text)) + 1, Len(text))

\* text is a number in decimal notation: a sign or none, a decimal with '.' or
\* ',', and possibly a power of ten (e, a sign or none, digits).
IsNumber(text) ==
    /\ IsDecimal(Unsigned(Mantissa(text)))
    /\ ExponentAt(text) # {} =>
        (Unsigned(Exponent(text)) # <<>> /\ IsDigits(Unsigned(Exponent(text))))

SignOf(text) == IF text # <<>> /\ text[1] = "-" THEN -1 ELSE 1

\* The value of a number in decimal notation.
NumberValue(text) ==
    LET m == Unsigned(Mantissa(text))
        seps == Positions(m, ".") \cup Positions(m, ",")
        digits == [i \in 1..(Len(m) - Cardinality(seps)) |->
                    IF seps # {} /\ i >= Least(seps) THEN m[i + 1] ELSE m[i]]
        places == IF seps = {} THEN 0 ELSE Len(m) - Least(seps)
        power == SignOf(Exponent(text)) * DigitsValue(Unsigned(Exponent(text))) - places
    IN  IF power >= 0 THEN Frac(SignOf(text) * DigitsValue(digits) * Pow10(power), 1)
        ELSE Frac(SignOf(text) * DigitsValue(digits), Pow10(-power))

ParsedDone == ReportDone \/ NormalizeDone

\* C25: the value of a score is its pre-parsed number when it has one, else its
\* raw text read as a number with '.' or ',' for the decimal separator, and 0
\* when the raw text is not a number.
C25_ParsedScore ==
    ParsedDone =>
        \A i \in 1..Len(scores) :
            normalization_result[i].original_score =
                IF IsSome(scores[i].numeric_value) THEN Unwrap(scores[i].numeric_value)
                ELSE IF IsNumber(scores[i].raw_value) THEN NumberValue(scores[i].raw_value)
                ELSE R(0)

----------------------------------------------------------------------------
(* The employee list *)

ListDone == entry = "list_employees" /\ pc = "done"

\* C26: for every employee the status of the employee list, by the SQL CASE and
\* by derive_position_status alike, is the track determine_position_type gives.
C26_SameTrack ==
    ListDone =>
        /\ output_text = determine_position_type(employee)
        /\ derive_position_status(employee.jabatan, employee.sub_jabatan, employee.gol)
            = determine_position_type(employee)

----------------------------------------------------------------------------
(* Caps *)

\* Leadership overrides inside [0, 100], and none.
OverridesInRange ==
    {o \in Overrides : IsSome(o) => (FGe(Unwrap(o), R(0)) /\ FLe(Unwrap(o), R(100)))}

\* What the leadership adds to the total of the report with override o.
ContributionWith(o) ==
    LET leader == compute_leadership_score(position_type, has_performance_data, o)
    IN  IF position_type = Eselon /\ IsSome(leader) THEN Unwrap(leader).weighted_score
        ELSE R(0)

UncappedSum(o) == FAdd(FAdd(perilaku.subtotal, kualitas.subtotal), ContributionWith(o))

\* C27: in every report, with every leadership override in [0, 100], the two
\* subtotals and the leadership contribution add up to at most 85, so the
\* final min with the overall cap leaves the sum as it is.
C27_TotalCapIdle ==
    ReportDone =>
        /\ \A o \in OverridesInRange :
            /\ FLe(UncappedSum(o), R(85))
            /\ calculate_total_score(position_type, perilaku, kualitas,
                    compute_leadership_score(position_type, has_performance_data, o))
                = UncappedSum(o)
        /\ total_score = UncappedSum(None)

\* An Eselon report with both subtotals at their caps: with the override 100
\* the sum is 25.5 + 42.5 + 17 = 85, exactly the overall cap.
C27_Witness ==
    /\ ReportDone
    /\ position_type = Eselon
    /\ perilaku.subtotal = Frac(51, 2)
    /\ kualitas.subtotal = Frac(85, 2)
    /\ UncappedSum(Some(R(100))) = R(85)
    /\ total_score = Frac(408, 5)

QualitySum == FSum(WeightedScores(kualitas.breakdown))

\* C28: the three weighted quality components of a report add up to at most
\* 42.5 for Eselon and 59.5 for Staff, so the quality subtotal is their sum and
\* the cap (70 for Staff) changes nothing.
C28_QualityCapIdle ==
    ReportDone =>
        /\ Len(kualitas.breakdown) = 3
        /\ FLe(QualitySum, IF position_type = Eselon THEN Frac(85, 2) ELSE Frac(119, 2))
        /\ kualitas.subtotal = QualitySum
        /\ position_type = Staff => FLt(kualitas.subtotal, R(70))

\* A Staff report with the three quality competencies at 100: 42.5 + 8.5 + 8.5.
C28_Witness ==
    /\ ReportDone
    /\ position_type = Staff
    /\ \A c \in 1..Len(kualitas.breakdown) : kualitas.breakdown[c].raw_score = R(100)
    /\ kualitas.subtotal = Frac(119, 2)

Withheld == IsSome(leadership) /\ ~Unwrap(leadership).applied

\* C29: an Eselon report whose leadership result is withheld has total score 0
\* and rating "Perlu Pembinaan", and an Eselon report with a total score above
\* 0 has the leadership applied.
C29_WithheldMeansZero ==
    (ReportDone /\ position_type = Eselon) =>
        /\ Withheld => (total_score = R(0) /\ rating = "Perlu Pembinaan")
        /\ FGt(total_score, R(0)) => (IsSome(leadership) /\ Unwrap(leadership).applied)

\* An Eselon employee with scores, none of which counts: the leadership is
\* withheld and the total is 0.
C29_Witness ==
    /\ ReportDone
    /\ position_type = Eselon
    /\ scores # <<>>
    /\ Withheld
    /\ total_score = R(0)
    /\ rating = "Perlu Pembinaan"

\* The report built after one score of the employee was raised.
RaisedDone == ReportDone /\ IsSome(previous)

\* The place of a rating among the four, from the lowest.
RatingRank(label) ==
    CASE label = "Perlu Pembinaan" -> 0
      [] label = "Kurang Baik" -> 1
      [] label = "Baik" -> 2
      [] label = "Sangat Baik" -> 3

NotLowered ==
    /\ FGe(total_score, Unwrap(previous).total_score)
    /\ RatingRank(rating) >= RatingRank(Unwrap(previous).rating)

\* C30 as stated: raising one raw score, the rest unchanged, never lowers the
\* total score or the rating.
C30_RaiseNeverLowers == RaisedDone => NotLowered

\* C30: raising one raw score, the rest unchanged, never lowers the total score
\* or the rating when the scale inferred for the employee stays the same.
C30_RaiseOnSameScale ==
    (RaisedDone /\ normalization_scale = Unwrap(previous).normalization_scale) => NotLowered

\* A score of a sheet was raised on the hundred-point scale, and the total
\* score and the rating rose.
C30_Witness ==
    /\ RaisedDone
    /\ normalization_scale = R(100)
    /\ Unwrap(previous).normalization_scale = R(100)
    /\ FGt(total_score, Unwrap(previous).total_score)
    /\ RatingRank(rating) > RatingRank(Unwrap(previous).rating)

====
